---- MODULE Spec2Model ----
(***************************************************************************)
(* Geometric inference and ranking engine of spatial-build:               *)
(*   src/services/spatialService.ts  (performSpatialAnalysis and helpers)  *)
(*   src/services/fileService.ts     (parseGeoFile center inference)       *)
(*                                                                         *)
(* Number representation.                                                  *)
(*   Angles are fixed-point integers, two units per degree (Deg(1) = 2),   *)
(*   so that the half degrees of the code (32.5, beamwidth / 2) are exact. *)
(*   Scores share the unit of the deviation they start from.               *)
(*   Coordinates are integers on a grid of 0.00002 degree (about 2.22 m),  *)
(*   positions are <<lng, lat>> as in GeoJSON.  All modelled positions lie *)
(*   within one degree of the equator, where a grid step is the same       *)
(*   length east-west and north-south and cos(lat) is 1 at grid            *)
(*   resolution.                                                           *)
(*   A distance is kept as its square in grid units: the comparisons of    *)
(*   the code (sort order, < 30 m, > 2 m) are comparisons of squares.      *)
(*                                                                         *)
(* The results of the geodesy library (turf) on a geometry are data of the *)
(* feature: each vertex carries the bearing turf reports for it and the    *)
(* turning angle computed at it, a feature carries its centroid and the    *)
(* query points booleanPointInPolygon finds inside it.  A vertex that is   *)
(* not numeric (NaN) makes turf's point() and centroid() throw.            *)
(***************************************************************************)
EXTENDS Integers, Sequences, FiniteSets, TLC

Deg(n) == n * 2

Abs(x) == IF x < 0 THEN -x ELSE x

Min2(a, b) == IF a < b THEN a ELSE b

Max2(a, b) == IF a > b THEN a ELSE b

\* JavaScript's % : the remainder takes the sign of the dividend.
JsRem(a, b) == IF a >= 0 THEN a % b ELSE -((-a) % b)

RECURSIVE Flatten(_)
Flatten(ss) == IF ss = <<>> THEN <<>> ELSE Head(ss) \o Flatten(Tail(ss))

SeqMin(s) == CHOOSE m \in {s[i] : i \in DOMAIN s} : \A i \in DOMAIN s : m <= s[i]

---------------------------------------------------------------------------
(* Geodesy library as used by the code. *)

\* point(coordinates) throws "coordinates must contain numbers" on NaN.
PointThrows(v) == ~v.num

\* coordAll(feature): every coordinate of the geometry, in order; a null
\* geometry has none.
coordAll(f) == IF f.gtype = "null" THEN <<>> ELSE Flatten(Flatten(f.polys))

\* centroid(feature) is point(mean of coordAll): it throws when there is no
\* coordinate (0/0) or when a coordinate is not numeric.
CentroidThrows(f) ==
    \/ coordAll(f) = <<>>
    \/ \E i \in DOMAIN coordAll(f) : ~coordAll(f)[i].num

\* distance(a, b): squared planar distance in grid units.
turfDistance(a, b) == (a[1] - b[1]) * (a[1] - b[1]) + (a[2] - b[2]) * (a[2] - b[2])

\* bearing(from, to), in (-180, 180], 0 = north, clockwise; 0 for coincident
\* points.  Exact on the eight compass directions, linear in between.
turfBearing(from, to) ==
    LET dx == to[1] - from[1]
        dy == to[2] - from[2]
        ax == Abs(dx)
        ay == Abs(dy)
        th == IF ax = 0 /\ ay = 0 THEN 0
              ELSE IF ax <= ay THEN (Deg(45) * ax) \div ay
              ELSE Deg(90) - (Deg(45) * ay) \div ax
    IN  IF dy >= 0 THEN (IF dx >= 0 THEN th ELSE -th)
        ELSE (IF dx >= 0 THEN Deg(180) - th ELSE th - Deg(180))

---------------------------------------------------------------------------
(* spatialService.ts helpers *)

\* The remainder taken once: (angle % 360), which keeps the sign of angle.
normalizeAngleOneRemainder(angle) ==
    LET result == JsRem(angle, Deg(360))
    IN  IF result = Deg(360) THEN 0 ELSE result

normalizeAngle(angle) ==
    LET result == JsRem(JsRem(angle, Deg(360)) + Deg(360), Deg(360))
    IN  IF result = Deg(360) THEN 0 ELSE result

calculateDeviation(angle1, angle2) ==
    LET diff == Abs(angle1 - angle2)
    IN  IF diff > Deg(180) THEN Deg(360) - diff ELSE diff

\* /^(site_?)?(azimuth|bearing|heading|dir(ection)?|orient(ation)?)$/i on the
\* property keys of the model.
AzimuthKeyRe(k) ==
    k \in {"azimuth", "Azimuth", "bearing", "heading", "dir", "direction",
           "orient", "orientation", "site_azimuth", "SITE_AZIMUTH"}

\* Array.prototype.find over Object.keys(props): index of the first entry
\* whose key matches, 0 when none does.
FirstAzimuthKey(props) ==
    LET hits == {i \in DOMAIN props : AzimuthKeyRe(props[i].k)}
    IN  IF hits = {} THEN 0 ELSE CHOOSE i \in hits : \A j \in hits : i <= j

NoAzimuth == [has |-> FALSE, val |-> 0]

\* props[i].isNum is !isNaN(parseFloat(value)), props[i].v the parsed value
\* (in angle units).
getExplicitAzimuth(props) ==
    LET key == FirstAzimuthKey(props)
    IN  IF key # 0 /\ props[key].isNum
        THEN [has |-> TRUE, val |-> normalizeAngle(props[key].v)]
        ELSE NoAzimuth

OmniMetrics(azimuth) ==
    [azimuth |-> azimuth, beamwidth |-> Deg(360), isOmni |-> TRUE,
     startAngle |-> 0, endAngle |-> Deg(360)]

\* Lines 64 and 74: the synthetic 65 degree sector around an explicit azimuth.
SyntheticSector(explicitAzimuth) ==
    [azimuth |-> explicitAzimuth, beamwidth |-> Deg(65), isOmni |-> FALSE,
     startAngle |-> normalizeAngle(explicitAzimuth - Deg(65) \div 2),
     endAngle |-> normalizeAngle(explicitAzimuth + Deg(65) \div 2)]

\* bearings.sort((a, b) => a - b)
RECURSIVE SortBearings(_)
SortBearings(s) ==
    IF s = <<>> THEN <<>>
    ELSE LET m == SeqMin(s)
             i == CHOOSE j \in DOMAIN s : s[j] = m
         IN  <<m>> \o SortBearings(SubSeq(s, 1, i - 1) \o SubSeq(s, i + 1, Len(s)))

\* The loop of lines 108-121 after i iterations: [maxGap, gapStart, gapEnd].
RECURSIVE GapScan(_, _)
GapScan(bearings, i) ==
    IF i = 0 THEN [maxGap |-> 0, gapStart |-> 0, gapEnd |-> 0]
    ELSE LET acc == GapScan(bearings, i - 1)
             current == bearings[i]
             next == bearings[(i % Len(bearings)) + 1]
             d0 == next - current
             diff == IF d0 < 0 THEN d0 + Deg(360) ELSE d0
         IN  IF diff > acc.maxGap
             THEN [maxGap |-> diff, gapStart |-> current, gapEnd |-> next]
             ELSE acc

\* The midpoint left as startAngle + beamwidth / 2, not normalized.
DirectionalSectorRawMidpoint(explicitAzimuth, gap) ==
    LET startAngle == gap.gapEnd
        endAngle == gap.gapStart
        beamwidth == Deg(360) - gap.maxGap
        geoAzimuth == startAngle + beamwidth \div 2
    IN  [azimuth |-> IF explicitAzimuth.has THEN explicitAzimuth.val ELSE geoAzimuth,
         beamwidth |-> beamwidth,
         isOmni |-> FALSE,
         startAngle |-> startAngle,
         endAngle |-> endAngle]

\* The sector taken as the gap itself: it starts at gapStart and ends at
\* gapEnd.
DirectionalSectorOnGap(explicitAzimuth, gap) ==
    LET startAngle == gap.gapStart
        endAngle == gap.gapEnd
        beamwidth == Deg(360) - gap.maxGap
        geoAzimuth == normalizeAngle(startAngle + beamwidth \div 2)
    IN  [azimuth |-> IF explicitAzimuth.has THEN explicitAzimuth.val ELSE geoAzimuth,
         beamwidth |-> beamwidth,
         isOmni |-> FALSE,
         startAngle |-> startAngle,
         endAngle |-> endAngle]

\* The wedge re-centred on the explicit azimuth.
DirectionalSectorRecentred(explicitAzimuth, gap) ==
    LET beamwidth == Deg(360) - gap.maxGap
        geoAzimuth == normalizeAngle(gap.gapEnd + beamwidth \div 2)
        azimuth == IF explicitAzimuth.has THEN explicitAzimuth.val ELSE geoAzimuth
    IN  [azimuth |-> azimuth,
         beamwidth |-> beamwidth,
         isOmni |-> FALSE,
         startAngle |-> normalizeAngle(azimuth - beamwidth \div 2),
         endAngle |-> normalizeAngle(azimuth + beamwidth \div 2)]

\* Lines 129-150: the sector is the complement of the largest gap.
DirectionalSector(explicitAzimuth, gap) ==
    LET startAngle == gap.gapEnd
        endAngle == gap.gapStart
        beamwidth == Deg(360) - gap.maxGap
        geoAzimuth == normalizeAngle(startAngle + beamwidth \div 2)
    IN  [azimuth |-> IF explicitAzimuth.has THEN explicitAzimuth.val ELSE geoAzimuth,
         beamwidth |-> beamwidth,
         isOmni |-> FALSE,
         startAngle |-> startAngle,
         endAngle |-> endAngle]

\* The vertices further than 2 m from the tower center: on the grid, the
\* vertices at another grid point.
OuterCoords(f, towerCenter) ==
    SelectSeq(coordAll(f), LAMBDA c : turfDistance(c.pos, towerCenter) > 0)

\* analyzeSectorGeometry throws where turf throws: centroid (line 68) on a
\* geometry that is neither absent nor a Point.
AnalyzeThrows(f) ==
    /\ f.gtype # "null"
    /\ f.gtype # "Point"
    /\ CentroidThrows(f)

analyzeSectorGeometry(f, towerCenter) ==
    LET explicitAzimuth == getExplicitAzimuth(f.props)
    IN  IF f.gtype = "null" \/ f.gtype = "Point"
        THEN IF explicitAzimuth.has THEN SyntheticSector(explicitAzimuth.val)
             ELSE OmniMetrics(0)
        ELSE IF turfDistance(towerCenter, f.cpos) = 0
        THEN IF explicitAzimuth.has THEN SyntheticSector(explicitAzimuth.val)
             ELSE OmniMetrics(0)
        ELSE LET outerCoords == OuterCoords(f, towerCenter)
             IN  IF Len(outerCoords) = 0
                 THEN OmniMetrics(normalizeAngle(f.cbrg))
                 ELSE LET bearings == SortBearings(
                              [i \in DOMAIN outerCoords |-> normalizeAngle(outerCoords[i].brg)])
                          gap == GapScan(bearings, Len(bearings))
                      IN  IF gap.maxGap < Deg(60) THEN OmniMetrics(0)
                          ELSE DirectionalSector(explicitAzimuth, gap)

---------------------------------------------------------------------------
(* performSpatialAnalysis *)

\* const LAT_THRESHOLD = 0.5 (degrees), in grid units.
LAT_THRESHOLD == 25000

\* cos(searchLat * PI / 180) in thousandths: 1000 at grid resolution for the
\* modelled query latitudes (within half a degree of the equator).
CosMilli(searchLat) == 1000

\* 0.5 / Math.max(0.1, Math.cos(...))
LNG_THRESHOLD(searchLat) == (LAT_THRESHOLD * 1000) \div Max2(100, CosMilli(searchLat))

\* The filter callback of lines 177-190: a centroid that throws is caught
\* (false), every comparison with a NaN anchor is false.
InWindow(f, searchLat, searchLng) ==
    LET known == IF f.hasCenter THEN f.centerNum ELSE ~CentroidThrows(f)
        c == IF f.hasCenter THEN f.center ELSE f.cpos
    IN  /\ known
        /\ c[2] >= searchLat - LAT_THRESHOLD
        /\ c[2] <= searchLat + LAT_THRESHOLD
        /\ c[1] >= searchLng - LNG_THRESHOLD(searchLat)
        /\ c[1] <= searchLng + LNG_THRESHOLD(searchLat)

Candidates(features, searchLat, searchLng) ==
    SelectSeq(features, LAMBDA f : InWindow(f, searchLat, searchLng))

FeaturesToAnalyze(features, searchLat, searchLng) ==
    LET candidates == Candidates(features, searchLat, searchLng)
    IN  IF Len(candidates) > 0 THEN candidates ELSE features

\* Number.prototype.toFixed(4) of a grid coordinate: the sign and the
\* magnitude rounded to 0.0001 degree (5 grid units); a negative value that
\* rounds to zero prints as "-0.0000".
toFixed4(c) == [neg |-> c < 0, mag |-> (Abs(c) + 2) \div 5]

\* `${latKey},${lngKey}`
SiteKey(centerCoords) == <<toFixed4(centerCoords[2]), toFixed4(centerCoords[1])>>

\* Lines 211-221 throw when a feature has neither _center nor a coordinate
\* (centroid of nothing), line 229 when the anchor is not numeric.
ClusterThrows(f) ==
    IF f.hasCenter THEN ~f.centerNum
    ELSE \/ coordAll(f) = <<>>
         \/ PointThrows(coordAll(f)[1])

CenterCoords(f) == IF f.hasCenter THEN f.center ELSE coordAll(f)[1].pos

\* A group found for the key gets the feature as its only candidate.
AddToSiteGroupsOverwriting(siteGroups, f, targetPoint) ==
    LET centerCoords == CenterCoords(f)
        key == SiteKey(centerCoords)
        at == {i \in DOMAIN siteGroups : siteGroups[i].id = key}
    IN  IF at = {}
        THEN Append(siteGroups,
                    [id |-> key,
                     referencePoint |-> centerCoords,
                     distance |-> turfDistance(targetPoint, centerCoords),
                     candidates |-> <<f>>])
        ELSE LET i == CHOOSE j \in at : TRUE
             IN  [siteGroups EXCEPT ![i].candidates = <<f>>]

\* The body of the forEach of lines 208-241 on the Map kept in insertion order.
AddToSiteGroups(siteGroups, f, targetPoint) ==
    LET centerCoords == CenterCoords(f)
        key == SiteKey(centerCoords)
        at == {i \in DOMAIN siteGroups : siteGroups[i].id = key}
    IN  IF at = {}
        THEN Append(siteGroups,
                    [id |-> key,
                     referencePoint |-> centerCoords,
                     distance |-> turfDistance(targetPoint, centerCoords),
                     candidates |-> <<f>>])
        ELSE LET i == CHOOSE j \in at : TRUE
             IN  [siteGroups EXCEPT ![i].candidates = Append(@, f)]

RECURSIVE GroupSites(_, _, _)
GroupSites(features, n, targetPoint) ==
    IF n = 0 THEN <<>>
    ELSE AddToSiteGroups(GroupSites(features, n - 1, targetPoint), features[n], targetPoint)

\* The comparator reversed: b.distance - a.distance.
InsertSiteDescending(sorted, x) ==
    LET k == Cardinality({i \in DOMAIN sorted : sorted[i].distance >= x.distance})
    IN  SubSeq(sorted, 1, k) \o <<x>> \o SubSeq(sorted, k + 1, Len(sorted))

\* sites.sort((a, b) => a.distance - b.distance): a stable ascending sort.
InsertSite(sorted, x) ==
    LET k == Cardinality({i \in DOMAIN sorted : sorted[i].distance <= x.distance})
    IN  SubSeq(sorted, 1, k) \o <<x>> \o SubSeq(sorted, k + 1, Len(sorted))

RECURSIVE SortSitesTo(_, _)
SortSitesTo(sites, n) ==
    IF n = 0 THEN <<>> ELSE InsertSite(SortSitesTo(sites, n - 1), sites[n])

SortSites(sites) == SortSitesTo(sites, Len(sites))

\* A rank is a JavaScript number: NaN, or a multiple of one half.
IntRank(n) == [nan |-> FALSE, twice |-> 2 * n]

NaNRank == [nan |-> TRUE, twice |-> 0]

MathMin(a, b) == IF a.nan \/ b.nan THEN NaNRank
                 ELSE IF a.twice <= b.twice THEN a ELSE b

MathMax(a, b) == IF a.nan \/ b.nan THEN NaNRank
                 ELSE IF a.twice >= b.twice THEN a ELSE b

SafeRank(rank, totalSites) == MathMax(IntRank(1), MathMin(rank, IntRank(totalSites)))

\* sites[safeRank - 1] is defined exactly at the integer indices of the array.
SiteDefined(safeRank, totalSites) ==
    /\ ~safeRank.nan
    /\ safeRank.twice % 2 = 0
    /\ safeRank.twice \div 2 >= 1
    /\ safeRank.twice \div 2 <= totalSites

\* selectedSite.distance * 1000 < 30, as a squared distance in grid units
\* (30 m is 13.49 grid steps).
NEAR_FIELD_SQ == 182

\* Lines 278-283: the containment test and its catch.
IsInside(f, targetPoint) ==
    IF f.gtype = "null" THEN FALSE
    ELSE IF f.gtype = "Polygon" \/ f.gtype = "MultiPolygon"
    THEN targetPoint \in f.covers
    ELSE FALSE

\* Lines 287-296.
IsInBeam(metrics, deviation, isNearField) ==
    IF ~metrics.isOmni /\ ~isNearField
    THEN 2 * deviation <= metrics.beamwidth
    ELSE TRUE

\* The containment tier written as 1000 instead of 10000.
ScoreInsideTier1000(deviation, isInside, isNearField, isInBeam, hasExplicit) ==
    LET tier == IF isInside THEN Deg(1000)
                ELSE IF isNearField THEN Deg(5000)
                ELSE IF isInBeam THEN Deg(2000)
                ELSE 0
        bonus == IF hasExplicit THEN Deg(10) ELSE 0
    IN  deviation - tier - bonus

\* Lines 302-329.
Score(deviation, isInside, isNearField, isInBeam, hasExplicit) ==
    LET tier == IF isInside THEN Deg(10000)
                ELSE IF isNearField THEN Deg(5000)
                ELSE IF isInBeam THEN Deg(2000)
                ELSE 0
        bonus == IF hasExplicit THEN Deg(10) ELSE 0
    IN  deviation - tier - bonus

\* The deviation forced to 0 for omnidirectional candidates only.
EvaluateNearFieldDeviation(f, metrics, targetPoint, bearingTowerToUser, isNearField) ==
    LET dev0 == calculateDeviation(metrics.azimuth, bearingTowerToUser)
        deviation == IF metrics.isOmni THEN 0 ELSE dev0
        isInside == IsInside(f, targetPoint)
        isInBeam == IsInBeam(metrics, deviation, isNearField)
    IN  [feature |-> f.id,
         azimuth |-> metrics.azimuth,
         beamwidth |-> metrics.beamwidth,
         deviation |-> deviation,
         isInside |-> isInside,
         isInBeam |-> isInBeam,
         isOmni |-> metrics.isOmni,
         score |-> Score(deviation, isInside, isNearField, isInBeam,
                         getExplicitAzimuth(f.props).has)]

\* The map callback of lines 264-339 on sector metrics already computed.
Evaluate(f, metrics, targetPoint, bearingTowerToUser, isNearField) ==
    LET dev0 == calculateDeviation(metrics.azimuth, bearingTowerToUser)
        deviation == IF metrics.isOmni \/ isNearField THEN 0 ELSE dev0
        isInside == IsInside(f, targetPoint)
        isInBeam == IsInBeam(metrics, deviation, isNearField)
    IN  [feature |-> f.id,
         azimuth |-> metrics.azimuth,
         beamwidth |-> metrics.beamwidth,
         deviation |-> deviation,
         isInside |-> isInside,
         isInBeam |-> isInBeam,
         isOmni |-> metrics.isOmni,
         score |-> Score(deviation, isInside, isNearField, isInBeam,
                         getExplicitAzimuth(f.props).has)]

EvaluateCandidate(f, referencePoint, targetPoint, bearingTowerToUser, isNearField) ==
    Evaluate(f, analyzeSectorGeometry(f, referencePoint), targetPoint,
             bearingTowerToUser, isNearField)

\* A sort that is not stable: a candidate goes before those of equal score.
InsertCandidateUnstable(sorted, x) ==
    LET k == Cardinality({i \in DOMAIN sorted : sorted[i].score < x.score})
    IN  SubSeq(sorted, 1, k) \o <<x>> \o SubSeq(sorted, k + 1, Len(sorted))

\* evaluatedCandidates.sort((a, b) => a.score - b.score): stable, ascending.
InsertCandidate(sorted, x) ==
    LET k == Cardinality({i \in DOMAIN sorted : sorted[i].score <= x.score})
    IN  SubSeq(sorted, 1, k) \o <<x>> \o SubSeq(sorted, k + 1, Len(sorted))

RECURSIVE SortCandidatesTo(_, _)
SortCandidatesTo(cands, n) ==
    IF n = 0 THEN <<>> ELSE InsertCandidate(SortCandidatesTo(cands, n - 1), cands[n])

SortCandidates(cands) == SortCandidatesTo(cands, Len(cands))

NoFeaturesError == "No features found in dataset to analyze."

NoSiteError == "No suitable site found."

TurfError == "coordinates must contain numbers"

NoResult ==
    [nearestFeature |-> 0, distance |-> 0, bearing |-> 0, sectorAzimuth |-> 0,
     sectorBeamwidth |-> 0, deviationAngle |-> 0, isInside |-> FALSE,
     searchPoint |-> <<0, 0>>, nearestPoint |-> <<0, 0>>,
     rank |-> IntRank(0), totalFeatures |-> 0]

\* What a call leaves behind: how it ended, the sorted sites array and the
\* evaluated candidates (before their sort) as far as the call computed them,
\* and the result it returned.
Thrown(error, sites, evaluated) ==
    [kind |-> "error", error |-> error, sites |-> sites,
     evaluated |-> evaluated, result |-> NoResult]

SiteView(site) ==
    [id |-> site.id, referencePoint |-> site.referencePoint,
     distance |-> site.distance,
     members |-> [i \in DOMAIN site.candidates |-> site.candidates[i].id]]

\* The guard without its length test.
NoFeaturesOnlyMissing(data) == data.missing

\* Line 161: !geoData.features || geoData.features.length === 0
NoFeatures(data) == data.missing \/ Len(data.features) = 0

\* featuresToAnalyze reversed in place: it is the dataset's own array when
\* the prefilter keeps nothing.
DatasetAfterCallReversing(searchLat, searchLng, data) ==
    IF NoFeatures(data) \/ Len(Candidates(data.features, searchLat, searchLng)) > 0
    THEN data
    ELSE [data EXCEPT !.features = [i \in DOMAIN @ |-> @[Len(@) + 1 - i]]]

\* The collection after a call. Lines 177 and 194: candidates is a new array,
\* featuresToAnalyze is that array or geoData.features itself; lines 208-241,
\* 264-339: the features are read, pushed into new arrays and mapped to new
\* objects; lines 245, 344: the arrays sorted are new ones. Nothing is
\* assigned to the collection, its array or a feature.
DatasetAfterCall(searchLat, searchLng, data) == data

performSpatialAnalysis(searchLat, searchLng, data, rank) ==
    LET targetPoint == <<searchLng, searchLat>>
    IN
    IF NoFeatures(data)
    THEN Thrown(NoFeaturesError, <<>>, <<>>)
    ELSE
    LET featuresToAnalyze == FeaturesToAnalyze(data.features, searchLat, searchLng)
    IN
    IF \E i \in DOMAIN featuresToAnalyze : ClusterThrows(featuresToAnalyze[i])
    THEN Thrown(TurfError, <<>>, <<>>)
    ELSE
    LET sites == SortSites(GroupSites(featuresToAnalyze, Len(featuresToAnalyze), targetPoint))
        siteViews == [i \in DOMAIN sites |-> SiteView(sites[i])]
        totalSites == Len(sites)
        safeRank == SafeRank(rank, totalSites)
    IN
    IF ~SiteDefined(safeRank, totalSites)
    THEN Thrown(NoSiteError, siteViews, <<>>)
    ELSE
    LET selectedSite == sites[safeRank.twice \div 2]
        bearingTowerToUser ==
            normalizeAngle(turfBearing(selectedSite.referencePoint, targetPoint))
        isNearField == selectedSite.distance < NEAR_FIELD_SQ
    IN
    IF \E i \in DOMAIN selectedSite.candidates : AnalyzeThrows(selectedSite.candidates[i])
    THEN Thrown(TurfError, siteViews, <<>>)
    ELSE
    LET evaluatedCandidates ==
            [i \in DOMAIN selectedSite.candidates |->
                EvaluateCandidate(selectedSite.candidates[i], selectedSite.referencePoint,
                                  targetPoint, bearingTowerToUser, isNearField)]
        bestMatch == SortCandidates(evaluatedCandidates)[1]
    IN
    [kind |-> "ok", error |-> "", sites |-> siteViews,
     evaluated |-> evaluatedCandidates,
     result |->
        [nearestFeature |-> bestMatch.feature,
         distance |-> selectedSite.distance,
         bearing |-> normalizeAngle(turfBearing(targetPoint, selectedSite.referencePoint)),
         sectorAzimuth |-> bestMatch.azimuth,
         sectorBeamwidth |-> bestMatch.beamwidth,
         deviationAngle |-> bestMatch.deviation,
         isInside |-> bestMatch.isInside,
         searchPoint |-> <<searchLng, searchLat>>,
         nearestPoint |-> selectedSite.referencePoint,
         rank |-> safeRank,
         totalFeatures |-> totalSites]]

---------------------------------------------------------------------------
(* Datasets *)

Vertex(pos, brg, turn) == [pos |-> pos, num |-> TRUE, brg |-> brg, turn |-> turn]

\* A coordinate that did not parse to numbers.
NaNVertex == [pos |-> <<0, 0>>, num |-> FALSE, brg |-> 0, turn |-> 0]

Prop(k, v) == [k |-> k, isNum |-> TRUE, v |-> v]

TextProp(k) == [k |-> k, isNum |-> FALSE, v |-> 0]

\* A feature as parseGeoFile leaves it: properties._id (id) and
\* properties._center are set.
Annotated(id, props, center, gtype, polys, cpos, cbrg, covers) ==
    [id |-> id, props |-> props, hasCenter |-> TRUE, center |-> center,
     centerNum |-> TRUE, gtype |-> gtype, polys |-> polys, cpos |-> cpos,
     cbrg |-> cbrg, covers |-> covers]

\* A feature that carries no properties._center.
Bare(id, gtype, polys, cpos) ==
    [id |-> id, props |-> <<>>, hasCenter |-> FALSE, center |-> <<0, 0>>,
     centerNum |-> TRUE, gtype |-> gtype, polys |-> polys, cpos |-> cpos,
     cbrg |-> 0, covers |-> {}]

PointFeature(id, props, pos) ==
    Annotated(id, props, pos, "Point", << << <<Vertex(pos, 0, Deg(180))>> >> >>, pos, 0, {})

\* A closed sector polygon: the tip, three vertices of the far arc, the tip.
SectorFeature(id, props, tip, tipBrg, arcPos, arcBrg, covers) ==
    LET ring == <<Vertex(tip, tipBrg, Deg(60)),
                  Vertex(arcPos[1], arcBrg[1], Deg(100)),
                  Vertex(arcPos[2], arcBrg[2], Deg(160)),
                  Vertex(arcPos[3], arcBrg[3], Deg(100)),
                  Vertex(tip, tipBrg, Deg(60))>>
    IN  Annotated(id, props, tip, "Polygon", << <<ring>> >>, arcPos[2], arcBrg[2], covers)

QueryPoints == {<<0, 0>>, <<0, 600>>}

\* Two anchors 3 m apart with one rounding key, two anchors at one distance
\* from the first query point, an anchor in the corner of its window and a
\* nearer anchor north of the window.
SiteA == <<3, 4>>
SiteA2 == <<4, 3>>
SiteB == <<1000, 0>>
SiteC == <<0, 1000>>
SiteC2 == <<1, 1000>>
SiteCorner == <<22500, 22500>>
SiteNorth == <<0, 25500>>

FeatureUniverse ==
    { PointFeature(1, <<>>, SiteA),
      SectorFeature(2, <<>>, SiteA2, Deg(135),
                    <<<<200, 400>>, <<400, 400>>, <<400, 200>>>>,
                    <<Deg(30), Deg(45), Deg(60)>>, {}),
      SectorFeature(3, <<>>, SiteB, 0,
                    <<<<0, 500>>, <<-200, 0>>, <<0, -500>>>>,
                    <<Deg(-60), Deg(-90), Deg(-120)>>, {<<0, 0>>}),
      SectorFeature(4, <<>>, SiteB, 0,
                    <<<<2000, 500>>, <<2200, 0>>, <<2000, -500>>>>,
                    <<Deg(60), Deg(90), Deg(120)>>, {}),
      PointFeature(5, <<TextProp("name"), Prop("azimuth", Deg(-90))>>, SiteB),
      PointFeature(6, <<>>, SiteC),
      PointFeature(7, <<>>, SiteC2),
      PointFeature(8, <<>>, SiteCorner),
      PointFeature(9, <<>>, SiteNorth),
      \* a polygon one vertex of which is not numeric
      Annotated(10, <<>>, SiteB, "Polygon",
                << <<<<Vertex(SiteB, 0, Deg(180)), NaNVertex,
                       Vertex(<<1500, 500>>, Deg(45), Deg(180)),
                       Vertex(SiteB, 0, Deg(180))>>>> >>,
                <<0, 0>>, 0, {}),
      \* no geometry and no _center
      Bare(11, "null", <<>>, <<0, 0>>),
      \* a point that was never annotated
      Bare(12, "Point", << << <<Vertex(SiteC, 0, Deg(180))>> >> >>, SiteC) }

MaxFeatures == 2

MaxRank == 3

RECURSIVE SeqsUpTo(_, _)
SeqsUpTo(S, n) ==
    IF n = 0 THEN {<<>>}
    ELSE LET shorter == SeqsUpTo(S, n - 1)
         IN  shorter \cup {Append(q, x) : q \in {r \in shorter : Len(r) = n - 1}, x \in S}

Distinct(q) == \A i, j \in DOMAIN q : i # j => q[i].id # q[j].id

\* A dataset: the features list is missing, or holds distinct features.
Datasets ==
    {[missing |-> TRUE, features |-> <<>>]} \cup
    {[missing |-> FALSE, features |-> q] :
        q \in {r \in SeqsUpTo(FeatureUniverse, MaxFeatures) : Distinct(r)}}

RankInputs == {IntRank(r) : r \in -1 .. MaxRank} \cup {NaNRank, [nan |-> FALSE, twice |-> 3]}

---------------------------------------------------------------------------
(* fileService.ts: parseGeoFile from the converted feature list on *)

\* /^(site_?)?lat(itude)?$/i on the property keys of the model.
LatKeyRe(k) == k \in {"lat", "Lat", "latitude", "site_lat", "SITE_LATITUDE"}

\* /^(site_?)?lon(gitude)?|lng$/i on the property keys of the model: the
\* alternation binds loosest, so the pattern is "^(site_?)?lon(gitude)?" (any
\* key that starts so) or "lng$" (any key that ends so).
LngKeyRe(k) ==
    k \in {"lon", "Lon", "longitude", "site_lon", "lng", "site_lng",
           "long_name", "lonely", "longitude_source"}

\* pKeys.find: the first key, in the object's key order, that matches; 0 when
\* none does.
FirstIndex(hits) ==
    IF hits = {} THEN 0 ELSE CHOOSE i \in hits : \A j \in hits : i <= j

FirstLatKey(props) == FirstIndex({i \in DOMAIN props : LatKeyRe(props[i].k)})

FirstLngKey(props) == FirstIndex({i \in DOMAIN props : LngKeyRe(props[i].k)})

\* 90 and 180 degrees in grid units.
MaxLat == 4500000
MaxLng == 9000000

NoCenter == [has |-> FALSE, pos |-> <<0, 0>>]

getExplicitCenter(props) ==
    LET latKey == FirstLatKey(props)
        lngKey == FirstLngKey(props)
    IN  IF latKey # 0 /\ lngKey # 0
        THEN LET lat == props[latKey]
                 lng == props[lngKey]
             IN  IF lat.isNum /\ lng.isNum /\ Abs(lat.v) <= MaxLat /\ Abs(lng.v) <= MaxLng
                 THEN [has |-> TRUE, pos |-> <<lng.v, lat.v>>]
                 ELSE NoCenter
        ELSE NoCenter

\* calculateAngle(curr, prev, next): 180 when point() throws on one of them.
calculateAngle(curr, prev, next) ==
    IF PointThrows(curr) \/ PointThrows(prev) \/ PointThrows(next)
    THEN Deg(180)
    ELSE curr.turn

\* The text a coordinate is keyed and compared by.
CoordKey(v) == <<v.num, v.pos>>

\* Lines 131-135: geometry type and coordinates (rounded to 5 decimals, finer
\* than the grid).
Signature(f) == <<f.gtype, [i \in DOMAIN coordAll(f) |-> CoordKey(coordAll(f)[i])]>>

\* Lines 117-141: features without coordinates and repeated signatures go.
RECURSIVE Deduplicate(_, _)
Deduplicate(features, n) ==
    IF n = 0 THEN <<>>
    ELSE LET kept == Deduplicate(features, n - 1)
             feature == features[n]
         IN  IF feature.gtype = "null" \/ coordAll(feature) = <<>> THEN kept
             ELSE IF \E i \in DOMAIN kept : Signature(kept[i]) = Signature(feature)
             THEN kept
             ELSE Append(kept, feature)

\* new Map(): no coordinate has a count.
EmptyIndex == [key \in {} |-> 0]

\* Every occurrence of a coordinate in the feature adds 1.
CountFeatureInflating(coordCounts, f) ==
    LET coords == coordAll(f)
        keys == {CoordKey(coords[j]) : j \in DOMAIN coords}
    IN  [key \in DOMAIN coordCounts \cup keys |->
            (IF key \in DOMAIN coordCounts THEN coordCounts[key] ELSE 0)
            + Cardinality({j \in DOMAIN coords : CoordKey(coords[j]) = key})]

\* Lines 152-159, one pass of the loop: each of the feature's distinct
\* coordinates (uniqueCoords) adds 1 to its count.
CountFeature(coordCounts, f) ==
    LET uniqueCoords == {CoordKey(coordAll(f)[j]) : j \in DOMAIN coordAll(f)}
    IN  [key \in DOMAIN coordCounts \cup uniqueCoords |->
            (IF key \in DOMAIN coordCounts THEN coordCounts[key] ELSE 0)
            + (IF key \in uniqueCoords THEN 1 ELSE 0)]

\* Lines 147-160: coordCounts after n features.
RECURSIVE BuildCoordCounts(_, _)
BuildCoordCounts(features, n) ==
    IF n = 0 THEN EmptyIndex
    ELSE CountFeature(BuildCoordCounts(features, n - 1), features[n])

\* Lines 147-160: coordCounts.get(cStr) || 0 after the loop, the number of
\* features that hold the coordinate.
CoordCount(features, key) ==
    Cardinality({i \in DOMAIN features :
                    \E j \in DOMAIN coordAll(features[i]) :
                        CoordKey(coordAll(features[i])[j]) = key})

\* Lines 186-196: ring.length is read of undefined when the first polygon of
\* a MultiPolygon has no ring (or a polygon has no ring array at all).
RingThrows(f) ==
    \/ f.gtype = "Polygon" /\ f.polys[1] = <<>>
    \/ f.gtype = "MultiPolygon" /\ (f.polys = <<>> \/ f.polys[1] = <<>>)

MainRing(f) ==
    IF f.gtype = "Polygon" \/ f.gtype = "MultiPolygon" THEN f.polys[1][1]
    ELSE coordAll(f)

IsClosed(ring) ==
    /\ Len(ring) > 0
    /\ ring[1].num /\ ring[Len(ring)].num
    /\ ring[1].pos = ring[Len(ring)].pos

AnalysisLength(ring) == IF IsClosed(ring) THEN Len(ring) - 1 ELSE Len(ring)

\* Lines 214-220, with the ring indexed from 1.
Angles(ring) ==
    LET n == AnalysisLength(ring)
    IN  [j \in 1 .. n |->
            calculateAngle(ring[j], ring[((j - 2 + n) % n) + 1], ring[(j % n) + 1])]

RECURSIVE SumSeq(_, _)
SumSeq(s, n) == IF n = 0 THEN 0 ELSE SumSeq(s, n - 1) + s[n]

\* Line 227: analysisLength > 3 && avgAngle > 90 && stdDev < 15, with the
\* mean and the variance cleared of their divisions.
LooksRegular(ring) ==
    LET angles == Angles(ring)
        n == Len(angles)
        total == SumSeq(angles, n)
        sq == [j \in 1 .. n |-> (n * angles[j] - total) * (n * angles[j] - total)]
    IN  /\ AnalysisLength(ring) > 3
        /\ total > Deg(90) * n
        /\ SumSeq(sq, n) < Deg(15) * Deg(15) * n * n * n

\* Lines 246-251.
TipScore(features, ring, k) ==
    LET got == CoordCount(features, CoordKey(ring[k]))
        count == IF got = 0 THEN 1 ELSE got
        scoreTopology == count * Deg(50)
        scoreIndex == IF k = 1 THEN Deg(80) ELSE 0
        scoreGeometry == (Deg(180) - Angles(ring)[k]) * 2
    IN  scoreTopology + scoreIndex + scoreGeometry

\* The comparison of line 253 written as >=: the last maximum is kept.
RECURSIVE BestTipLast(_, _, _)
BestTipLast(features, ring, k) ==
    IF k = 1 THEN 1
    ELSE LET best == BestTipLast(features, ring, k - 1)
         IN  IF TipScore(features, ring, k) >= TipScore(features, ring, best)
             THEN k ELSE best

\* Lines 238-257 after k vertices: the index of bestCenter.
RECURSIVE BestTip(_, _, _)
BestTip(features, ring, k) ==
    IF k = 1 THEN 1
    ELSE LET best == BestTip(features, ring, k - 1)
         IN  IF TipScore(features, ring, k) > TipScore(features, ring, best)
             THEN k ELSE best

WithCenter(f, v) ==
    [f EXCEPT !.hasCenter = TRUE, !.center = v.pos, !.centerNum = v.num]

\* One iteration of the loop of lines 167-261 on a feature that has its _id.
InferCenter(features, feature) ==
    LET explicitCenter == getExplicitCenter(feature.props)
        ring == MainRing(feature)
    IN  IF explicitCenter.has
        THEN [feature EXCEPT !.hasCenter = TRUE, !.center = explicitCenter.pos]
        ELSE IF ~(feature.gtype = "Polygon" \/ feature.gtype = "MultiPolygon")
        THEN IF Len(ring) > 0 THEN WithCenter(feature, ring[1]) ELSE feature
        ELSE IF Len(ring) < 3
        THEN IF Len(ring) > 0 THEN WithCenter(feature, ring[1]) ELSE feature
        ELSE IF LooksRegular(ring) /\ ~CentroidThrows(feature)
        THEN [feature EXCEPT !.hasCenter = TRUE, !.center = feature.cpos]
        ELSE WithCenter(feature, ring[BestTip(features, ring, AnalysisLength(ring))])

\* The loop throws where line 199 reads ring.length of undefined, unless the
\* explicit center has ended the iteration before.
InferThrows(feature) == ~getExplicitCenter(feature.props).has /\ RingThrows(feature)

ParseError == "Cannot read properties of undefined (reading 'length')"

\* parseGeoFile from line 110 on: the collection it returns, or the error it
\* rejects with.
parseGeoFile(converted) ==
    LET features == Deduplicate(converted, Len(converted))
    IN  IF \E i \in DOMAIN features : InferThrows(features[i])
        THEN [kind |-> "error", error |-> ParseError, features |-> <<>>]
        ELSE [kind |-> "ok", error |-> "",
              features |-> [i \in DOMAIN features |->
                              InferCenter(features, [features[i] EXCEPT !.id = i])]]

\* A feature as the converter hands it over: no _id, no _center.
Raw(props, gtype, polys, cpos) ==
    [id |-> 0, props |-> props, hasCenter |-> FALSE, center |-> <<0, 0>>,
     centerNum |-> TRUE, gtype |-> gtype, polys |-> polys, cpos |-> cpos,
     cbrg |-> 0, covers |-> {}]

\* A closed wedge: tip, three arc vertices, tip.
Wedge(tip, a, b, c) ==
    <<Vertex(tip, 0, Deg(60)), Vertex(a, Deg(30), Deg(100)),
      Vertex(b, Deg(45), Deg(160)), Vertex(c, Deg(60), Deg(100)),
      Vertex(tip, 0, Deg(60))>>

\* A closed regular hexagon around <<100, 100>>.
Hexagon ==
    <<Vertex(<<100, 200>>, 0, Deg(120)), Vertex(<<187, 150>>, Deg(60), Deg(120)),
      Vertex(<<187, 50>>, Deg(120), Deg(120)), Vertex(<<100, 0>>, Deg(180), Deg(120)),
      Vertex(<<13, 50>>, Deg(-120), Deg(120)), Vertex(<<13, 150>>, Deg(-60), Deg(120)),
      Vertex(<<100, 200>>, 0, Deg(120))>>

\* A closed ring of wide angles, one vertex of which is not numeric.
BrokenRing ==
    <<Vertex(<<300, 400>>, 0, Deg(170)), NaNVertex,
      Vertex(<<500, 400>>, Deg(90), Deg(170)), Vertex(<<500, 300>>, Deg(120), Deg(170)),
      Vertex(<<300, 300>>, Deg(180), Deg(170)), Vertex(<<300, 400>>, 0, Deg(170))>>

\* Closed rings of four right angles; of angles 120, 60, 120, 60; of angles
\* 100, 60, 100, 100; of angles 60, 150, 90, 90, 150.
Rectangle ==
    <<Vertex(<<10000, 0>>, 0, Deg(90)), Vertex(<<10000, 200>>, 0, Deg(90)),
      Vertex(<<10400, 200>>, Deg(60), Deg(90)), Vertex(<<10400, 0>>, Deg(90), Deg(90)),
      Vertex(<<10000, 0>>, 0, Deg(90))>>

Parallelogram ==
    <<Vertex(<<11100, 0>>, 0, Deg(120)), Vertex(<<11000, 200>>, Deg(-30), Deg(60)),
      Vertex(<<11400, 200>>, Deg(60), Deg(120)), Vertex(<<11500, 0>>, Deg(90), Deg(60)),
      Vertex(<<11100, 0>>, 0, Deg(120))>>

Kite ==
    <<Vertex(<<12000, 0>>, 0, Deg(100)), Vertex(<<12100, 300>>, Deg(20), Deg(60)),
      Vertex(<<12400, 200>>, Deg(60), Deg(100)), Vertex(<<12400, 0>>, Deg(90), Deg(100)),
      Vertex(<<12000, 0>>, 0, Deg(100))>>

Pentagon ==
    <<Vertex(<<13000, 0>>, 0, Deg(60)), Vertex(<<13100, 200>>, Deg(30), Deg(150)),
      Vertex(<<13400, 200>>, Deg(60), Deg(90)), Vertex(<<13400, 0>>, Deg(90), Deg(90)),
      Vertex(<<13200, -50>>, Deg(100), Deg(150)), Vertex(<<13000, 0>>, 0, Deg(60))>>

\* A ring that is not closed: its sharpest vertex is the last one.
OpenTriangle ==
    <<Vertex(<<14000, 0>>, 0, Deg(100)), Vertex(<<14000, 200>>, 0, Deg(60)),
      Vertex(<<14300, 100>>, Deg(70), Deg(20))>>

TowerPos == <<1000, 0>>

RawUniverse ==
    { Raw(<<>>, "Point", << << <<Vertex(<<0, 1000>>, 0, Deg(180))>> >> >>, <<0, 1000>>),
      \* the same point again, under other properties
      Raw(<<TextProp("name")>>, "Point",
          << << <<Vertex(<<0, 1000>>, 0, Deg(180))>> >> >>, <<0, 1000>>),
      \* two sectors of one tower
      Raw(<<>>, "Polygon",
          << <<Wedge(TowerPos, <<1200, 400>>, <<1400, 400>>, <<1400, 200>>)>> >>,
          <<1250, 250>>),
      Raw(<<>>, "Polygon",
          << <<<<Vertex(<<600, 400>>, Deg(-45), Deg(140)), Vertex(<<600, 0>>, Deg(-90), Deg(100)),
                 Vertex(TowerPos, 0, Deg(100)), Vertex(<<600, 400>>, Deg(-45), Deg(140))>>>> >>,
          <<750, 130>>),
      Raw(<<>>, "Polygon", << <<Hexagon>> >>, <<100, 100>>),
      \* explicit coordinates
      Raw(<<Prop("lat", 2000), Prop("lon", 3000)>>, "Polygon",
          << <<Wedge(<<5000, 0>>, <<5200, 400>>, <<5400, 400>>, <<5400, 200>>)>> >>,
          <<5250, 250>>),
      \* explicit coordinates after a key that starts like a longitude key
      Raw(<<TextProp("long_name"), Prop("lat", 2000), Prop("lon", 3000)>>, "Polygon",
          << <<Wedge(<<6000, 0>>, <<6200, 400>>, <<6400, 400>>, <<6400, 200>>)>> >>,
          <<6250, 250>>),
      \* an empty outer ring before a ring with coordinates
      Raw(<<>>, "Polygon",
          << <<<<>>, Wedge(<<7000, 0>>, <<7200, 400>>, <<7400, 400>>, <<7400, 200>>)>> >>,
          <<7250, 250>>),
      \* a first polygon without rings before a polygon with coordinates
      Raw(<<>>, "MultiPolygon",
          << <<>>, <<Wedge(<<8000, 0>>, <<8200, 400>>, <<8400, 400>>, <<8400, 200>>)>> >>,
          <<8250, 250>>),
      Raw(<<>>, "Polygon", << <<BrokenRing>> >>, <<0, 0>>),
      \* a latitude of 95 degrees
      Raw(<<Prop("latitude", 4750000), Prop("lng", 3000)>>, "Point",
          << << <<Vertex(<<9000, 0>>, 0, Deg(180))>> >> >>, <<9000, 0>>),
      Raw(<<>>, "LineString",
          << << <<Vertex(<<0, 0>>, 0, Deg(180)), Vertex(<<50, 50>>, Deg(45), Deg(180))>> >> >>,
          <<25, 25>>),
      \* a placemark without geometry
      Raw(<<TextProp("name")>>, "null", <<>>, <<0, 0>>),
      Raw(<<>>, "Polygon", << <<Rectangle>> >>, <<10200, 100>>),
      Raw(<<>>, "Polygon", << <<Parallelogram>> >>, <<11250, 100>>),
      Raw(<<>>, "Polygon", << <<Kite>> >>, <<12200, 100>>),
      Raw(<<>>, "Polygon", << <<Pentagon>> >>, <<13200, 100>>),
      Raw(<<>>, "Polygon", << <<OpenTriangle>> >>, <<14100, 100>>) }

ConvertedLists ==
    {q \in SeqsUpTo(RawUniverse, MaxFeatures) :
        \A i, j \in DOMAIN q : i # j => q[i] # q[j]}

---------------------------------------------------------------------------
(* State *)

VARIABLES
    geoData,     \* the feature collection queries run against
    call,        \* the arguments of the latest call of performSpatialAnalysis
    analysis,    \* how that call ended
    previous,    \* the result a find-next call started from
    upload,      \* how the latest call of parseGeoFile ended
    scoring,     \* two candidates of one site, evaluated
    angles,      \* the latest call of an angle helper and what it returned
    sector,      \* the latest call of analyzeSectorGeometry and what it returned
    parsing,     \* the parseGeoFile call in flight
    dataSources, \* geoState.dataSources
    reads,       \* the feature list the latest query has read
    searching,   \* the handleSearch call in flight
    analysisResults, \* the result list of App
    geocoding    \* the resolveLocationWithGemini call in flight

angleVars == <<angles, sector>>

uploadVars == <<parsing, dataSources, reads>>

searchVars == <<searching, analysisResults, geocoding>>

vars == <<geoData, call, analysis, previous, upload, scoring, angles, sector,
          parsing, dataSources, reads, searching, analysisResults, geocoding>>

NoOutcome ==
    [kind |-> "none", error |-> "", sites |-> <<>>, evaluated |-> <<>>,
     result |-> NoResult]

NoData == [missing |-> FALSE, features |-> <<>>]

NoCall == [searchLat |-> 0, searchLng |-> 0, rank |-> IntRank(0)]

NoUpload == [kind |-> "none", error |-> "", features |-> <<>>]

NoCandidate ==
    [feature |-> 0, azimuth |-> 0, beamwidth |-> 0, deviation |-> 0,
     isInside |-> FALSE, isInBeam |-> FALSE, isOmni |-> FALSE, score |-> 0]

NoScoring ==
    [done |-> FALSE, bearing |-> 0, isNearField |-> FALSE,
     a |-> NoCandidate, b |-> NoCandidate]

NoAngles == [op |-> "none", a |-> 0, b |-> 0, r |-> 0, rr |-> 0]

NoMetrics ==
    [azimuth |-> 0, beamwidth |-> 0, isOmni |-> FALSE, startAngle |-> 0, endAngle |-> 0]

NoSector ==
    [done |-> FALSE, props |-> <<>>, gapPath |-> FALSE, bearings |-> <<>>,
     metrics |-> NoMetrics, bare |-> NoMetrics]

NoParsing ==
    [phase |-> "idle", id |-> 0, file |-> <<>>, features |-> <<>>, i |-> 0,
     coordCounts |-> EmptyIndex]

NoRead == [done |-> FALSE, source |-> 0, lists |-> <<>>]

NoCoords == [has |-> FALSE, lat |-> 0, lng |-> 0]

NoSearch == [phase |-> "idle", dataSources |-> <<>>, outcome |-> "none", coords |-> NoCoords]

NoGeocoding ==
    [phase |-> "idle", attempts |-> 0, calls |-> 0, waited |-> <<>>, errors |-> <<>>,
     outcome |-> "none", coords |-> NoCoords]

Init ==
    /\ geoData = NoData
    /\ call = NoCall
    /\ analysis = NoOutcome
    /\ previous = NoOutcome
    /\ upload = NoUpload
    /\ scoring = NoScoring
    /\ angles = NoAngles
    /\ sector = NoSector
    /\ parsing = NoParsing
    /\ dataSources = <<>>
    /\ reads = NoRead
    /\ searching = NoSearch
    /\ analysisResults = <<>>
    /\ geocoding = NoGeocoding

\* The dataset of a source is set once, when the source is created.
LoadDataset ==
    /\ geoData = NoData
    /\ \E d \in Datasets :
        /\ geoData' = d
        /\ call' = NoCall
        /\ analysis' = NoOutcome
        /\ previous' = NoOutcome
    /\ UNCHANGED <<upload, scoring, angleVars, uploadVars, searchVars>>

\* performSpatialAnalysis(searchLat, searchLng, geoData, rank)
Analyze ==
    \E q \in QueryPoints, rank \in RankInputs :
        /\ call' = [searchLat |-> q[2], searchLng |-> q[1], rank |-> rank]
        /\ analysis' = performSpatialAnalysis(q[2], q[1], geoData, rank)
        /\ previous' = NoOutcome
        /\ geoData' = DatasetAfterCall(q[2], q[1], geoData)
        /\ UNCHANGED <<upload, scoring, angleVars, uploadVars, searchVars>>

\* handleFindNext: the query of the current result again, with rank + 1; a
\* call that throws is caught and leaves the current result in place.
FindNext ==
    /\ analysis.kind = "ok"
    /\ LET current == analysis.result
           nextRank == [nan |-> current.rank.nan, twice |-> current.rank.twice + 2]
           newResult == performSpatialAnalysis(current.searchPoint[2],
                                               current.searchPoint[1], geoData, nextRank)
       IN  /\ nextRank.twice <= 2 * current.totalFeatures
           /\ IF newResult.kind = "ok"
              THEN /\ analysis' = newResult
                   /\ previous' = analysis
                   /\ call' = [call EXCEPT !.rank = nextRank]
              ELSE UNCHANGED <<call, analysis, previous>>
           /\ geoData' = DatasetAfterCall(current.searchPoint[2], current.searchPoint[1],
                                          geoData)
    /\ UNCHANGED <<upload, scoring, angleVars, uploadVars, searchVars>>

Next == LoadDataset \/ Analyze \/ FindNext

Spec == Init /\ [][Next]_vars

\* The center inference pass on a converted feature list.
ParseGeoFile ==
    /\ upload = NoUpload
    /\ \E converted \in ConvertedLists : upload' = parseGeoFile(converted)
    /\ UNCHANGED <<geoData, call, analysis, previous, scoring, angleVars, uploadVars, searchVars>>

NextParse == ParseGeoFile

SpecParse == Init /\ [][NextParse]_vars


\* Candidates for the scoring of one site at TowerPos, seen from <<0, 0>>.
ScoreTarget == <<0, 0>>

Arc(id, props, brgs, covers) ==
    Annotated(id, props, TowerPos, "Polygon",
              << <<[i \in DOMAIN brgs |-> Vertex(<<2000 + i, 100>>, brgs[i], Deg(120))]>> >>,
              <<2000, 100>>, 0, covers)

ScoreFeatures ==
    { PointFeature(21, <<>>, TowerPos),
      PointFeature(22, <<Prop("azimuth", 0)>>, TowerPos),
      PointFeature(23, <<Prop("bearing", Deg(350) + 1)>>, TowerPos),
      PointFeature(30, <<Prop("azimuth", Deg(-90))>>, TowerPos),
      Arc(24, <<>>, <<Deg(80), Deg(90), Deg(100)>>, {}),
      Arc(25, <<>>, <<Deg(80), Deg(90), Deg(100)>>, {ScoreTarget}),
      Arc(26, <<Prop("heading", Deg(180))>>, <<Deg(80), Deg(90), Deg(100)>>, {ScoreTarget}),
      Arc(27, <<>>, <<0, Deg(60), Deg(120), Deg(180), Deg(-120), Deg(-60)>>, {}),
      Arc(28, <<Prop("dir", Deg(90))>>,
          <<0, Deg(60), Deg(120), Deg(180), Deg(-120), Deg(-60)>>, {}),
      Arc(29, <<>>, <<0, Deg(45), Deg(90), Deg(135), Deg(180), Deg(-135), Deg(-90), Deg(-45)>>,
          {ScoreTarget}) }

\* Every whole degree, and two half degrees.
TowerBearings == {Deg(d) : d \in 0 .. 359} \cup {1, Deg(180) + 1}

\* The candidates of one site are evaluated with the site's bearing to the
\* query point and its near-field flag.
EvaluatePair ==
    /\ ~scoring.done
    /\ \E f1 \in ScoreFeatures, f2 \in ScoreFeatures, b \in TowerBearings, nf \in BOOLEAN :
        scoring' = [done |-> TRUE, bearing |-> b, isNearField |-> nf,
                    a |-> EvaluateCandidate(f1, TowerPos, ScoreTarget, b, nf),
                    b |-> EvaluateCandidate(f2, TowerPos, ScoreTarget, b, nf)]
    /\ UNCHANGED <<geoData, call, analysis, previous, upload, angleVars, uploadVars, searchVars>>

NextScore == EvaluatePair

SpecScore == Init /\ [][NextScore]_vars

\* Angles handed to the helpers: every half degree of MaxTurns full turns to
\* either side of zero.
MaxTurns == 2

AngleInputs == -(MaxTurns * Deg(360)) .. MaxTurns * Deg(360)

\* Pairs of angles are taken every 2.5 degrees, with the neighbours of the
\* half turn.
PairInputs ==
    {a \in AngleInputs : a % 5 = 0} \cup {Deg(180) - 1, Deg(180) + 1}

NormalizeAngle ==
    /\ angles.op = "none"
    /\ \E a \in AngleInputs :
        angles' = [op |-> "normalizeAngle", a |-> a, b |-> 0,
                   r |-> normalizeAngle(a),
                   rr |-> normalizeAngle(normalizeAngle(a))]
    /\ UNCHANGED <<geoData, call, analysis, previous, upload, scoring, sector, uploadVars,
                   searchVars>>

\* r is calculateDeviation(a, b), rr is calculateDeviation(b, a).
CalculateDeviation ==
    /\ angles.op = "none"
    /\ \E a \in PairInputs, b \in PairInputs :
        angles' = [op |-> "calculateDeviation", a |-> a, b |-> b,
                   r |-> calculateDeviation(a, b),
                   rr |-> calculateDeviation(b, a)]
    /\ UNCHANGED <<geoData, call, analysis, previous, upload, scoring, sector, uploadVars,
                   searchVars>>

NextAngles == NormalizeAngle \/ CalculateDeviation

SpecAngles == Init /\ [][NextAngles]_vars

\* Features handed to analyzeSectorGeometry with the anchor TowerPos.
MaxVertices == 4

\* Bearings as the library returns them, in (-180, 180].
BearingChoices ==
    {0, Deg(10), Deg(20), Deg(30), Deg(90), Deg(180), Deg(-160), Deg(-90), Deg(-30)}

\* Vertices on every side of the anchor, 45 degrees apart.
AllAround == <<0, Deg(45), Deg(90), Deg(135), Deg(180), Deg(-135), Deg(-90), Deg(-45)>>

SectorShapes ==
    {[kind |-> "point", brgs |-> <<>>], [kind |-> "centred", brgs |-> AllAround],
     [kind |-> "arc", brgs |-> AllAround]}
    \cup {[kind |-> "arc", brgs |-> q] : q \in SeqsUpTo(BearingChoices, MaxVertices) \ {<<>>}}

SectorProps ==
    { <<>>,
      <<Prop("azimuth", Deg(45))>>,
      <<TextProp("name"), Prop("bearing", Deg(200) + 1)>>,
      <<Prop("heading", Deg(-90))>>,
      <<TextProp("azimuth")>> }

\* A polygon with its tip on the anchor and one vertex on each bearing; its
\* centroid is on the anchor when the shape is centred on it.
SectorInput(props, shape) ==
    IF shape.kind = "point" THEN PointFeature(40, props, TowerPos)
    ELSE LET tip == Vertex(TowerPos, 0, Deg(60))
             arc == [i \in DOMAIN shape.brgs |->
                        Vertex(<<2000 + i, 100>>, shape.brgs[i], Deg(120))]
         IN  Annotated(40, props, TowerPos, "Polygon",
                       << << <<tip>> \o arc \o <<tip>> >> >>,
                       IF shape.kind = "centred" THEN TowerPos ELSE <<2000, 100>>,
                       Deg(84), {})

\* Line 98: the bearings of the outer vertices, when the analysis gets there.
OuterBearings(f, towerCenter) ==
    LET outerCoords == OuterCoords(f, towerCenter)
    IN  [i \in DOMAIN outerCoords |-> normalizeAngle(outerCoords[i].brg)]

\* Lines 63 and 73: neither a Point nor centred on the anchor.
ReachesGapAnalysis(f, towerCenter) ==
    /\ ~(f.gtype = "null" \/ f.gtype = "Point")
    /\ turfDistance(towerCenter, f.cpos) # 0

\* analyzeSectorGeometry on a feature, and on the same feature without its
\* properties.
AnalyzeSector ==
    /\ ~sector.done
    /\ \E props \in SectorProps, shape \in SectorShapes :
        LET f == SectorInput(props, shape)
            gapPath == ReachesGapAnalysis(f, TowerPos)
        IN  sector' = [done |-> TRUE, props |-> props, gapPath |-> gapPath,
                       bearings |-> IF gapPath THEN OuterBearings(f, TowerPos) ELSE <<>>,
                       metrics |-> analyzeSectorGeometry(f, TowerPos),
                       bare |-> analyzeSectorGeometry([f EXCEPT !.props = <<>>], TowerPos)]
    /\ UNCHANGED <<geoData, call, analysis, previous, upload, scoring, angles, uploadVars,
                   searchVars>>

NextSector == AnalyzeSector

SpecSector == Init /\ [][NextSector]_vars

\* Uploads and queries of App.tsx, interleaved.  parseGeoFile is a coroutine:
\* parsing.phase is the await it is suspended at, and each action below runs it
\* from one await to the next.

\* App.tsx line 15 keeps 50000 features in the rendered part of a source;
\* the limit is scaled to the lists of the model.
MAX_RENDER_LIMIT == 2

\* Line 169 of fileService.ts yields every 500 features; scaled likewise.
InferChunk == 1

MaxSources == 2

RawAt(c) == CHOOSE f \in RawUniverse : f.props = <<>> /\ f.cpos = c

\* The files a user uploads, as the converter hands them over: two sectors of
\* one tower, a point and a rectangle, more features than are rendered at once
\* and loaded next; a file that repeats a feature; a file whose second feature
\* makes the inference loop throw; a point and a polygon with a coordinate
\* that is not numeric; an empty collection.
UploadFiles ==
    { <<RawAt(<<1250, 250>>), RawAt(<<750, 130>>), RawAt(<<0, 1000>>),
        RawAt(<<10200, 100>>)>>,
      <<RawAt(<<0, 1000>>), RawAt(<<0, 1000>>), RawAt(<<1250, 250>>)>>,
      <<RawAt(<<1250, 250>>), RawAt(<<8250, 250>>)>>,
      <<RawAt(<<0, 1000>>), RawAt(<<0, 0>>)>>,
      <<>> }

\* LoadingOverlay (App.tsx 434 and 442) covers the page while a search is in
\* flight, unless a file is being processed.
UiBlocked == searching.phase # "idle" /\ parsing.phase = "idle"

\* The upload has ended: the id of its processing item stays on record, so
\* that the next item gets another one (ids are random strings, line 97).
Ended(p) == [NoParsing EXCEPT !.id = p.id]

\* Lines 296-298, 347-349, 387-389: data.features and then pendingFeatures.
FullFeatures(ds) == ds.features \o ds.pendingFeatures

\* A source appended as soon as an upload is under way.
CanPublishEarly(p) == p.phase # "idle"

\* App.tsx 124-131: parseGeoFile has resolved and the 600 ms have passed.
CanPublish(p) == p.phase = "delay"

\* parseGeoFile has returned geojson: handleFileUpload goes on to its delay.
Returned(p) == [p EXCEPT !.phase = "delay", !.i = Len(p.features)]

\* handleFileUpload up to the first await inside parseGeoFile (the file read).
StartUpload ==
    /\ parsing.phase = "idle"
    /\ ~UiBlocked
    /\ parsing.id < MaxSources
    /\ \E file \in UploadFiles :
        parsing' = [phase |-> "read", id |-> parsing.id + 1, file |-> file,
                    features |-> file, i |-> 0, coordCounts |-> EmptyIndex]
    /\ UNCHANGED <<geoData, call, analysis, previous, upload, scoring, angleVars,
                   dataSources, reads, searchVars>>

\* The file is read and converted; the deduplication loop yields before its
\* first feature.  None of the three loops yields on an empty list.
ReadFile ==
    /\ parsing.phase = "read"
    /\ IF Len(parsing.features) = 0
       THEN /\ parsing' = Returned(parsing)
            /\ upload' = [kind |-> "ok", error |-> "", features |-> <<>>]
       ELSE /\ parsing' = [parsing EXCEPT !.phase = "dedup"]
            /\ UNCHANGED upload
    /\ UNCHANGED <<geoData, call, analysis, previous, scoring, angleVars,
                   dataSources, reads, searchVars>>

\* Lines 117-143: the deduplication loop, up to the yield of the counting loop.
DedupLoop ==
    /\ parsing.phase = "dedup"
    /\ LET uniqueFeatures == Deduplicate(parsing.features, Len(parsing.features))
       IN  IF Len(uniqueFeatures) = 0
           THEN /\ parsing' = Returned([parsing EXCEPT !.features = uniqueFeatures])
                /\ upload' = [kind |-> "ok", error |-> "", features |-> <<>>]
           ELSE /\ parsing' = [parsing EXCEPT !.phase = "count",
                                              !.features = uniqueFeatures]
                /\ UNCHANGED upload
    /\ UNCHANGED <<geoData, call, analysis, previous, scoring, angleVars,
                   dataSources, reads, searchVars>>

\* Lines 149-160: coordCounts is built; the inference loop yields before its
\* first feature.
CountLoop ==
    /\ parsing.phase = "count"
    /\ parsing' = [parsing EXCEPT
                       !.phase = "infer", !.i = 0,
                       !.coordCounts = BuildCoordCounts(parsing.features,
                                                        Len(parsing.features))]
    /\ UNCHANGED <<geoData, call, analysis, previous, upload, scoring, angleVars,
                   dataSources, reads, searchVars>>

\* The features i + 1 .. to of the list, given their _id and _center in place.
RECURSIVE InferRange(_, _, _)
InferRange(features, i, to) ==
    IF i >= to THEN features
    ELSE InferRange([features EXCEPT
                        ![i + 1] = InferCenter(features, [features[i + 1] EXCEPT !.id = i + 1])],
                    i + 1, to)

\* Lines 167-263: the inference loop from one yield to the next, to the
\* return, or to the throw that rejects the promise; the catch of
\* handleFileUpload (App.tsx 161-164) publishes nothing.
InferLoop ==
    /\ parsing.phase = "infer"
    /\ LET n == Len(parsing.features)
           to == Min2(parsing.i + InferChunk, n)
           features == InferRange(parsing.features, parsing.i, to)
       IN  IF \E k \in (parsing.i + 1) .. to : InferThrows(parsing.features[k])
           THEN /\ parsing' = Ended(parsing)
                /\ upload' = [kind |-> "error", error |-> ParseError, features |-> <<>>]
           ELSE IF to < n
           THEN /\ parsing' = [parsing EXCEPT !.features = features, !.i = to]
                /\ UNCHANGED upload
           ELSE /\ parsing' = Returned([parsing EXCEPT !.features = features])
                /\ upload' = [kind |-> "ok", error |-> "", features |-> features]
    /\ UNCHANGED <<geoData, call, analysis, previous, scoring, angleVars,
                   dataSources, reads, searchVars>>

\* App.tsx 134-158: the collection is split at MAX_RENDER_LIMIT and the new
\* source is appended to dataSources.
Publish ==
    /\ CanPublish(parsing)
    /\ LET n == Len(parsing.features)
           newSource ==
               [id |-> parsing.id, file |-> parsing.file, isActive |-> TRUE,
                features |-> SubSeq(parsing.features, 1, Min2(n, MAX_RENDER_LIMIT)),
                pendingFeatures |-> SubSeq(parsing.features, MAX_RENDER_LIMIT + 1, n)]
       IN  dataSources' = Append(dataSources, newSource)
    /\ parsing' = Ended(parsing)
    /\ UNCHANGED <<geoData, call, analysis, previous, upload, scoring, angleVars, reads,
                   searchVars>>

\* handleSearch from line 285 on: every active source is analysed at rank 1;
\* a source whose analysis throws contributes no result.  analysis follows the
\* result of one source, the one find-next and find-previous go on with.
HandleSearch ==
    /\ \E k \in DOMAIN dataSources : dataSources[k].isActive
    /\ \E q \in QueryPoints, k \in DOMAIN dataSources :
        LET ds == dataSources[k]
            result == performSpatialAnalysis(q[2], q[1],
                          [missing |-> FALSE, features |-> FullFeatures(ds)], IntRank(1))
        IN  /\ ds.isActive
            /\ reads' = [done |-> TRUE,
                         source |-> IF result.kind = "ok" THEN ds.id ELSE 0,
                         lists |-> [j \in DOMAIN dataSources |->
                                      FullFeatures(dataSources[j])]]
            /\ analysis' = IF result.kind = "ok" THEN result ELSE NoOutcome
            /\ call' = IF result.kind = "ok"
                       THEN [searchLat |-> q[2], searchLng |-> q[1], rank |-> IntRank(1)]
                       ELSE NoCall
            /\ previous' = NoOutcome
    /\ UNCHANGED <<geoData, upload, scoring, angleVars, parsing, dataSources, searchVars>>

\* Lines 336-374 and 376-414 share their body: the query of the current
\* result is repeated on its source at another rank.
Requery(rank) ==
    LET current == analysis.result
        source == dataSources[CHOOSE k \in DOMAIN dataSources :
                                  dataSources[k].id = reads.source]
        newResult == performSpatialAnalysis(current.searchPoint[2], current.searchPoint[1],
                         [missing |-> FALSE, features |-> FullFeatures(source)], rank)
    IN  /\ reads' = [reads EXCEPT !.lists = <<FullFeatures(source)>>]
        /\ IF newResult.kind = "ok"
           THEN /\ analysis' = newResult
                /\ previous' = analysis
                /\ call' = [call EXCEPT !.rank = rank]
           ELSE UNCHANGED <<call, analysis, previous>>

HandleFindNext ==
    /\ analysis.kind = "ok"
    /\ \E k \in DOMAIN dataSources : dataSources[k].id = reads.source
    /\ analysis.result.rank.twice + 2 <= 2 * analysis.result.totalFeatures
    /\ Requery([analysis.result.rank EXCEPT !.twice = @ + 2])
    /\ UNCHANGED <<geoData, upload, scoring, angleVars, parsing, dataSources, searchVars>>

HandleFindPrevious ==
    /\ analysis.kind = "ok"
    /\ \E k \in DOMAIN dataSources : dataSources[k].id = reads.source
    /\ analysis.result.rank.twice - 2 >= 2
    /\ Requery([analysis.result.rank EXCEPT !.twice = @ - 2])
    /\ UNCHANGED <<geoData, upload, scoring, angleVars, parsing, dataSources, searchVars>>

\* LOAD_MORE_BATCH is 10000 (App.tsx line 16); scaled like MAX_RENDER_LIMIT.
LOAD_MORE_BATCH == 1

\* A load-more step that takes the batch from the end of the pending list.
LoadBatchFromEnd(ds) ==
    LET n == Len(ds.pendingFeatures)
        batch == Min2(LOAD_MORE_BATCH, n)
    IN  [ds EXCEPT !.features = @ \o SubSeq(ds.pendingFeatures, n - batch + 1, n),
                   !.pendingFeatures = SubSeq(@, 1, n - batch)]

\* Lines 178-185.
LoadBatch(ds) ==
    LET n == Len(ds.pendingFeatures)
        batch == Min2(LOAD_MORE_BATCH, n)
    IN  [ds EXCEPT !.features = @ \o SubSeq(ds.pendingFeatures, 1, batch),
                   !.pendingFeatures = SubSeq(@, batch + 1, n)]

\* Lines 173-189.
HandleLoadMore ==
    /\ ~UiBlocked
    /\ \E k \in DOMAIN dataSources :
        LET sourceId == dataSources[k].id
        IN  dataSources' =
                [j \in DOMAIN dataSources |->
                    IF dataSources[j].id = sourceId
                       /\ Len(dataSources[j].pendingFeatures) > 0
                    THEN LoadBatch(dataSources[j])
                    ELSE dataSources[j]]
    /\ UNCHANGED <<geoData, call, analysis, previous, upload, scoring, angleVars,
                   parsing, reads, searchVars>>

NextUpload ==
    \/ StartUpload \/ ReadFile \/ DedupLoop \/ CountLoop \/ InferLoop \/ Publish
    \/ HandleSearch \/ HandleFindNext \/ HandleFindPrevious \/ HandleLoadMore

SpecUpload == Init /\ [][NextUpload]_vars


\* resolveLocationWithGemini of geminiService.ts as a coroutine: it is
\* suspended on the API call ("calling") or on its backoff delay ("waiting").

\* A decimal numeral of a text, in thousandths of a degree.
Numeral(neg, milli) == [neg |-> neg, milli |-> milli]

\* parseFloat of a numeral, on the grid (a thousandth of a degree is 50 steps).
parseFloat(t) == IF t.neg THEN -(t.milli * 50) ELSE t.milli * 50

maxAttempts == 3

RECURSIVE Pow2(_)
Pow2(n) == IF n = 0 THEN 1 ELSE 2 * Pow2(n - 1)

\* Line 76, in milliseconds.
Backoff(attempts) == 1000 * Pow2(attempts - 1)

\* What a rejected API call carries: error.status (0 when undefined) and the
\* marker words error.message includes.
ApiErrors ==
    [status : {0, 400, 403, 429, 503},
     msg : {{}, {"429"}, {"quota"}, {"overloaded"}, {"403"}, {"permission"}}]

\* What a resolved API call carries: candidates or none, and the text with
\* the first pair of numerals of three decimals it holds, if any.
NoPair == [has |-> FALSE, lat |-> Numeral(FALSE, 0), lng |-> Numeral(FALSE, 0)]

PairOf(lat, lng) == [has |-> TRUE, lat |-> lat, lng |-> lng]

ApiResponses ==
    { [candidates |-> FALSE, text |-> FALSE, pair |-> NoPair],
      [candidates |-> TRUE, text |-> FALSE, pair |-> NoPair],
      [candidates |-> TRUE, text |-> TRUE, pair |-> NoPair],
      [candidates |-> TRUE, text |-> TRUE,
       pair |-> PairOf(Numeral(FALSE, 12), Numeral(TRUE, 0))],
      [candidates |-> TRUE, text |-> TRUE,
       pair |-> PairOf(Numeral(FALSE, 95000), Numeral(TRUE, 200000))] }

\* Line 70.
IsRateLimit(error) ==
    \/ error.status = 429
    \/ error.status = 503
    \/ error.msg \cap {"429", "quota", "overloaded"} # {}

\* The test of line 72 written as >.
GivesUpLate(attempts) == attempts > maxAttempts

\* Line 72.
GivesUp(attempts) == attempts >= maxAttempts

\* How a call of resolveLocationWithGemini that has settled leaves the record.
Settled(g, outcome, coords) ==
    [g EXCEPT !.phase = "done", !.outcome = outcome, !.coords = coords]

\* Lines 16-38: without an API key null is returned, a query that is blank
\* after sanitizing throws, otherwise the first API call is issued.
StartResolve(g, hasKey, blank) ==
    IF ~hasKey THEN Settled(g, "null", NoCoords)
    ELSE IF blank THEN Settled(g, "invalid", NoCoords)
    ELSE [g EXCEPT !.phase = "calling", !.calls = 1]

\* Lines 46-62: the API call resolved.
AfterResponse(g, response) ==
    IF ~response.candidates THEN Settled(g, "null", NoCoords)
    ELSE IF response.text /\ response.pair.has
    THEN Settled(g, "coords",
                 [has |-> TRUE, lat |-> parseFloat(response.pair.lat),
                  lng |-> parseFloat(response.pair.lng)])
    ELSE Settled(g, "null", NoCoords)

\* Lines 64-90: the API call rejected.
AfterError(g, error) ==
    LET caught == [g EXCEPT !.errors = Append(@, error)]
    IN  IF IsRateLimit(error)
        THEN LET attempts == g.attempts + 1
             IN  IF GivesUp(attempts)
                 THEN Settled([caught EXCEPT !.attempts = attempts], "busy", NoCoords)
                 ELSE [caught EXCEPT !.phase = "waiting", !.attempts = attempts,
                                     !.waited = Append(@, Backoff(attempts))]
        ELSE IF error.status = 403 \/ error.msg \cap {"403", "permission"} # {}
        THEN Settled(caught, "denied", NoCoords)
        ELSE Settled(caught, "apiError", NoCoords)

\* Lines 78-79 and 35-38: the delay is over, the loop issues the next call.
AfterBackoff(g) == [g EXCEPT !.phase = "calling", !.calls = @ + 1]

Resolve ==
    /\ geocoding.phase = "idle"
    /\ \E hasKey \in BOOLEAN, blank \in BOOLEAN :
        geocoding' = StartResolve(geocoding, hasKey, blank)
    /\ UNCHANGED <<geoData, call, analysis, previous, upload, scoring, angleVars, uploadVars,
                   searching, analysisResults>>

ApiResolves ==
    /\ geocoding.phase = "calling"
    /\ \E response \in ApiResponses : geocoding' = AfterResponse(geocoding, response)
    /\ UNCHANGED <<geoData, call, analysis, previous, upload, scoring, angleVars, uploadVars,
                   searching, analysisResults>>

ApiRejects ==
    /\ geocoding.phase = "calling"
    /\ \E error \in ApiErrors : geocoding' = AfterError(geocoding, error)
    /\ UNCHANGED <<geoData, call, analysis, previous, upload, scoring, angleVars, uploadVars,
                   searching, analysisResults>>

BackoffElapses ==
    /\ geocoding.phase = "waiting"
    /\ geocoding' = AfterBackoff(geocoding)
    /\ UNCHANGED <<geoData, call, analysis, previous, upload, scoring, angleVars, uploadVars,
                   searching, analysisResults>>

NextGeocode == Resolve \/ ApiResolves \/ ApiRejects \/ BackoffElapses

\* Every API call settles and every delay ends.
SpecGeocode ==
    /\ Init
    /\ [][NextGeocode]_vars
    /\ WF_vars(ApiResolves \/ ApiRejects)
    /\ WF_vars(BackoffElapses)

---------------------------------------------------------------------------
(* The handlers of App.tsx on the result list *)

\* What is typed into the search box: two numerals with a separator between
\* them, or words.
PairText(sep, lat, lng) == [kind |-> "pair", sep |-> sep, lat |-> lat, lng |-> lng]

Words == [kind |-> "words", sep |-> "", lat |-> Numeral(FALSE, 0), lng |-> Numeral(FALSE, 0)]

\* "0.020, 0.000", "0.000, 200.000", "0.000 200.000", words.
SearchTexts ==
    { PairText(",", Numeral(FALSE, 20), Numeral(FALSE, 0)),
      PairText(",", Numeral(FALSE, 0), Numeral(FALSE, 200000)),
      PairText(" ", Numeral(FALSE, 0), Numeral(FALSE, 200000)),
      Words }

CoordsOf(lat, lng) == [has |-> TRUE, lat |-> lat, lng |-> lng]

\* Lines 381-394 of spatialService.ts: the text is a pair of numerals, apart
\* by commas or blanks, within range.
parseCoordinateString(input) ==
    IF input.kind = "pair"
    THEN LET lat == parseFloat(input.lat)
             lng == parseFloat(input.lng)
         IN  IF Abs(lat) <= MaxLat /\ Abs(lng) <= MaxLng
             THEN CoordsOf(lat, lng)
             ELSE NoCoords
    ELSE NoCoords

\* Lines 254-269 of handleSearch: the parser, then the split at the comma.
TypedCoords(query) ==
    LET coords == parseCoordinateString(query)
    IN  IF ~coords.has /\ query.kind = "pair" /\ query.sep = ","
        THEN CoordsOf(parseFloat(query.lat), parseFloat(query.lng))
        ELSE coords

\* How a call of resolveLocationWithGemini can settle: with the coordinates of
\* a response, with null, or by throwing.
GeocoderAnswers ==
    {AfterResponse(NoGeocoding, response) : response \in ApiResponses}
        \cup {Settled(NoGeocoding, "busy", NoCoords)}

\* The query points whose distances the grid arithmetic covers.
OnGrid(coords) == Abs(coords.lat) <= LAT_THRESHOLD /\ Abs(coords.lng) <= LAT_THRESHOLD

\* A query further away: every feature is outside its window, so the whole
\* dataset is clustered; the order of the sites by distance is not computed,
\* any site may be the one at the rank asked for.
FarOutcomes(coords, features, rank) ==
    IF Len(features) = 0
    THEN {Thrown(NoFeaturesError, <<>>, <<>>)}
    ELSE IF \E i \in DOMAIN features : ClusterThrows(features[i])
    THEN {Thrown(TurfError, <<>>, <<>>)}
    ELSE LET sites == GroupSites(features, Len(features), <<0, 0>>)
             safeRank == SafeRank(rank, Len(sites))
         IN  { IF \E i \in DOMAIN sites[k].candidates :
                      AnalyzeThrows(sites[k].candidates[i])
               THEN Thrown(TurfError, <<>>, <<>>)
               ELSE [kind |-> "ok", error |-> "", sites |-> <<>>, evaluated |-> <<>>,
                     result |-> [NoResult EXCEPT
                                   !.searchPoint = <<coords.lng, coords.lat>>,
                                   !.nearestPoint = sites[k].referencePoint,
                                   !.rank = safeRank,
                                   !.totalFeatures = Len(sites)]]
               : k \in DOMAIN sites }

\* The ways performSpatialAnalysis can end on the full feature list of a source.
AnalyseSource(coords, ds, rank) ==
    IF OnGrid(coords)
    THEN {performSpatialAnalysis(coords.lat, coords.lng,
              [missing |-> FALSE, features |-> FullFeatures(ds)], rank)}
    ELSE FarOutcomes(coords, FullFeatures(ds), rank)

\* Lines 309-310, 362-363: the result with the source it was computed on.
Entry(ds, result) == [sourceId |-> ds.id, result |-> result]

\* Line 321: (a.distance || Infinity) - (b.distance || Infinity); a distance
\* of 0 counts as Infinity, and two of those compare as equal.
StaysBefore(e, x) ==
    \/ x.result.distance = 0
    \/ e.result.distance # 0 /\ e.result.distance <= x.result.distance

InsertEntry(sorted, x) ==
    LET k == Cardinality({i \in DOMAIN sorted : StaysBefore(sorted[i], x)})
    IN  SubSeq(sorted, 1, k) \o <<x>> \o SubSeq(sorted, k + 1, Len(sorted))

RECURSIVE SortEntriesTo(_, _)
SortEntriesTo(entries, n) ==
    IF n = 0 THEN <<>> ELSE InsertEntry(SortEntriesTo(entries, n - 1), entries[n])

\* Lines 299-318: the sources in turn, the calls that threw skipped.
RECURSIVE NewResults(_, _, _)
NewResults(activeSources, outcomes, n) ==
    IF n = 0 THEN <<>>
    ELSE LET before == NewResults(activeSources, outcomes, n - 1)
         IN  IF outcomes[n].kind = "ok"
             THEN Append(before, Entry(activeSources[n], outcomes[n].result))
             ELSE before

\* Lines 285-323 of handleSearch, once the coordinates are there. geoState
\* is the state of the render handleSearch was called in: snapshot.
Analyse(coords, snapshot) ==
    LET activeSources == SelectSeq(snapshot, LAMBDA ds : ds.isActive)
    IN  IF Len(activeSources) = 0
        THEN UNCHANGED analysisResults
        ELSE \E outcomes \in [DOMAIN activeSources ->
                        UNION {AnalyseSource(coords, activeSources[i], IntRank(1)) :
                                   i \in DOMAIN activeSources}] :
                 /\ \A i \in DOMAIN activeSources :
                        outcomes[i] \in AnalyseSource(coords, activeSources[i], IntRank(1))
                 /\ LET newResults == NewResults(activeSources, outcomes,
                                                 Len(activeSources))
                    IN  analysisResults' =
                            SortEntriesTo(newResults, Len(newResults)) \o analysisResults

\* handleSearch up to its first await, or to its end when the text gives the
\* coordinates.
Search ==
    /\ searching.phase = "idle"
    /\ ~UiBlocked
    /\ Len(analysisResults) + Len(dataSources) <= MaxSources
    /\ \E query \in SearchTexts :
        LET coords == TypedCoords(query)
        IN  IF coords.has
            THEN /\ Analyse(coords, dataSources)
                 /\ searching' = NoSearch
            ELSE /\ searching' = [phase |-> "geocoding", dataSources |-> dataSources,
                                  outcome |-> "none", coords |-> NoCoords]
                 /\ UNCHANGED analysisResults
    /\ UNCHANGED <<geoData, call, analysis, previous, upload, scoring, angleVars, uploadVars,
                   geocoding>>

\* Lines 271-334: resolveLocationWithGemini has settled and handleSearch goes on.
SearchResumes ==
    /\ searching.phase = "geocoding"
    /\ \E g \in GeocoderAnswers :
        IF g.outcome = "coords"
        THEN /\ Analyse(g.coords, searching.dataSources)
             /\ searching' = NoSearch
        ELSE /\ searching' = NoSearch
             /\ UNCHANGED analysisResults
    /\ UNCHANGED <<geoData, call, analysis, previous, upload, scoring, angleVars, uploadVars,
                   geocoding>>

\* Line 344: nextRank > current.totalFeatures.
BeyondLast(rank, current) == rank.twice > 2 * current.totalFeatures

\* The shared body of handleFindNext and handleFindPrevious, from the lookup
\* of the source on.
Navigate(resultIndex, rank) ==
    LET current == analysisResults[resultIndex]
        found == {k \in DOMAIN dataSources : dataSources[k].id = current.sourceId}
    IN  IF found = {} \/ BeyondLast(rank, current.result) \/ rank.twice < 2
        THEN UNCHANGED analysisResults
        ELSE LET source == dataSources[CHOOSE k \in found : \A j \in found : k <= j]
                 searchPoint == CoordsOf(current.result.searchPoint[2],
                                         current.result.searchPoint[1])
             IN  \E newResult \in AnalyseSource(searchPoint, source, rank) :
                     analysisResults' =
                         IF newResult.kind = "ok"
                         THEN [analysisResults EXCEPT
                                  ![resultIndex] = Entry(source, newResult.result)]
                         ELSE analysisResults

\* Lines 336-374.
NavigateNext ==
    /\ ~UiBlocked
    /\ \E resultIndex \in DOMAIN analysisResults :
        Navigate(resultIndex,
                 [analysisResults[resultIndex].result.rank EXCEPT !.twice = @ + 2])
    /\ UNCHANGED <<geoData, call, analysis, previous, upload, scoring, angleVars,
                   uploadVars, searching, geocoding>>

\* Lines 376-414.
NavigatePrevious ==
    /\ ~UiBlocked
    /\ \E resultIndex \in DOMAIN analysisResults :
        Navigate(resultIndex,
                 [analysisResults[resultIndex].result.rank EXCEPT !.twice = @ - 2])
    /\ UNCHANGED <<geoData, call, analysis, previous, upload, scoring, angleVars,
                   uploadVars, searching, geocoding>>

\* Lines 203-210.
HandleToggleSource ==
    /\ ~UiBlocked
    /\ \E k \in DOMAIN dataSources :
        LET id == dataSources[k].id
        IN  dataSources' =
                [j \in DOMAIN dataSources |->
                    IF dataSources[j].id = id
                    THEN [dataSources[j] EXCEPT !.isActive = ~@]
                    ELSE dataSources[j]]
    /\ UNCHANGED <<geoData, call, analysis, previous, upload, scoring, angleVars,
                   parsing, reads, searchVars>>

\* Lines 212-218.
HandleDeleteSource ==
    /\ ~UiBlocked
    /\ \E k \in DOMAIN dataSources :
        LET id == dataSources[k].id
        IN  /\ dataSources' = SelectSeq(dataSources, LAMBDA ds : ds.id # id)
            /\ analysisResults' = SelectSeq(analysisResults, LAMBDA r : r.sourceId # id)
    /\ UNCHANGED <<geoData, call, analysis, previous, upload, scoring, angleVars,
                   parsing, reads, searching, geocoding>>

\* Lines 191-201.
HandleClearAllFiles ==
    /\ ~UiBlocked
    /\ dataSources # <<>>
    /\ dataSources' = <<>>
    /\ analysisResults' = <<>>
    /\ UNCHANGED <<geoData, call, analysis, previous, upload, scoring, angleVars,
                   parsing, reads, searching, geocoding>>

\* Lines 423-425.
HandleRemoveResult ==
    /\ ~UiBlocked
    /\ \E index \in DOMAIN analysisResults :
        analysisResults' =
            [i \in 1..(Len(analysisResults) - 1) |->
                IF i < index THEN analysisResults[i] ELSE analysisResults[i + 1]]
    /\ UNCHANGED <<geoData, call, analysis, previous, upload, scoring, angleVars,
                   uploadVars, searching, geocoding>>

NextApp ==
    \/ StartUpload \/ ReadFile \/ DedupLoop \/ CountLoop \/ InferLoop \/ Publish
    \/ Search \/ SearchResumes \/ NavigateNext \/ NavigatePrevious
    \/ HandleLoadMore \/ HandleToggleSource \/ HandleDeleteSource
    \/ HandleClearAllFiles \/ HandleRemoveResult

SpecApp == Init /\ [][NextApp]_vars

---------------------------------------------------------------------------
(* Properties *)

Called == analysis.kind # "none"

IsIntRank(r) == ~r.nan /\ r.twice % 2 = 0

ClampInt(r, n) == Max2(1, Min2(r.twice \div 2, n))

\* C1: on a dataset with features that forms totalSites >= 1 sites, a call
\* with an integer rank r raises no error and returns the site at position
\* max(1, min(r, totalSites)) of the distance-ordered sites, with
\* result.rank equal to that position.
C1_RankClampNeverErrors ==
    (Called /\ Len(analysis.sites) >= 1 /\ IsIntRank(call.rank)) =>
        LET n == Len(analysis.sites)
            k == ClampInt(call.rank, n)
        IN  /\ analysis.kind = "ok"
            /\ analysis.result.rank = IntRank(k)
            /\ analysis.result.totalFeatures = n
            /\ analysis.result.nearestPoint = analysis.sites[k].referencePoint

\* C2: a call on a collection whose features list is missing or empty
\* raises the 'no features' error and returns no result, whatever the query
\* point and the rank.
C2_EmptyInputRaisesNoFeatures ==
    (Called /\ (geoData.missing \/ geoData.features = <<>>)) =>
        /\ analysis.kind = "error"
        /\ analysis.error = NoFeaturesError
        /\ analysis.result = NoResult

C2_Witness ==
    /\ ~geoData.missing
    /\ geoData.features = <<>>
    /\ call.rank = NaNRank
    /\ call.searchLat = 600
    /\ analysis.kind = "error"
    /\ analysis.error = NoFeaturesError

\* C3: the 'no suitable site' error is raised only when clustering produced
\* no site; with a site, every rank value resolves to one.
C3_NoSiteErrorOnlyWithoutSites ==
    (analysis.kind = "error" /\ analysis.error = NoSiteError) =>
        Len(analysis.sites) = 0

\* The sites of the whole dataset, as clustering forms them from the
\* features it can cluster.
WholeDatasetSites ==
    LET usable == SelectSeq(geoData.features, LAMBDA f : ~ClusterThrows(f))
    IN  GroupSites(usable, Len(usable), <<call.searchLng, call.searchLat>>)

\* C4: with rank 1 the returned site is at the least distance over all
\* sites of the whole dataset, also when the prefilter kept a part of it.
C4_RankOneIsNearestOfDataset ==
    (analysis.kind = "ok" /\ call.rank = IntRank(1)) =>
        \A i \in DOMAIN WholeDatasetSites :
            WholeDatasetSites[i].distance >= analysis.result.distance

BackLobe(c) == ~c.isInside /\ ~scoring.isNearField /\ ~c.isInBeam

TiersDominate(x, y) ==
    /\ (x.isInside /\ ~y.isInside /\ y.isInBeam) => x.score < y.score
    /\ (BackLobe(x) /\ ~BackLobe(y)) => x.score > y.score

\* C6: of two candidates of one site, one that contains the query point
\* scores strictly lower than one that is only in-beam, and a back-lobe
\* candidate scores strictly higher than every inside, near-field or
\* in-beam candidate, with or without the explicit-azimuth bonus, for every
\* deviation.
C6_ScoreTiersDominate ==
    scoring.done => TiersDominate(scoring.a, scoring.b) /\ TiersDominate(scoring.b, scoring.a)

\* An inside candidate straight behind its azimuth, without the bonus,
\* against an in-beam candidate on its boresight with the bonus.
C6_Witness ==
    /\ scoring.done
    /\ scoring.a.isInside /\ scoring.a.deviation = Deg(180)
    /\ scoring.a.score = Deg(180) - Deg(10000)
    /\ ~scoring.b.isInside /\ scoring.b.isInBeam /\ ~scoring.b.isOmni
    /\ scoring.b.score = -Deg(2010)

MinScore(evaluated) ==
    CHOOSE m \in {evaluated[i].score : i \in DOMAIN evaluated} :
        \A i \in DOMAIN evaluated : m <= evaluated[i].score

FirstWithScore(evaluated, m) ==
    CHOOSE i \in DOMAIN evaluated :
        /\ evaluated[i].score = m
        /\ \A j \in DOMAIN evaluated : evaluated[j].score = m => i <= j

SelectedSite == analysis.sites[analysis.result.rank.twice \div 2]

\* C7: nearestFeature is the member of the selected site with the least
\* score, and among members of that least score the first in input order.
C7_BestMatchIsFirstMinimum ==
    analysis.kind = "ok" =>
        LET ev == analysis.evaluated
            members == SelectedSite.members
        IN  /\ [i \in DOMAIN ev |-> ev[i].feature] = members
            /\ analysis.result.nearestFeature
                   = members[FirstWithScore(ev, MinScore(ev))]
            /\ \E i \in DOMAIN geoData.features :
                   geoData.features[i].id = analysis.result.nearestFeature

\* Two members share the least score and the second in input order has the
\* smaller id.
C7_Witness ==
    /\ analysis.kind = "ok"
    /\ Len(analysis.evaluated) = 2
    /\ analysis.evaluated[1].score = analysis.evaluated[2].score
    /\ analysis.evaluated[1].feature > analysis.evaluated[2].feature
    /\ analysis.result.nearestFeature = analysis.evaluated[1].feature

StrictLngKey(k) == k \in {"lon", "Lon", "longitude", "site_lon", "lng"}

\* C8: a feature whose properties hold a latitude key and a longitude key
\* with numeric values in range has exactly [lng, lat] of those properties
\* as its anchor, whatever its geometry.
C8_ExplicitCenterWins ==
    upload.kind = "ok" =>
        \A i \in DOMAIN upload.features :
            LET f == upload.features[i]
                latKey == FirstLatKey(f.props)
                lngKey == FirstIndex({j \in DOMAIN f.props : StrictLngKey(f.props[j].k)})
            IN  (/\ latKey # 0 /\ lngKey # 0
                 /\ f.props[latKey].isNum /\ Abs(f.props[latKey].v) <= MaxLat
                 /\ f.props[lngKey].isNum /\ Abs(f.props[lngKey].v) <= MaxLng)
                => (f.hasCenter /\ f.center = <<f.props[lngKey].v, f.props[latKey].v>>)

\* C9: the inference pass raises no error, and every feature of the
\* returned collection carries a _center and an _id.
C9_EveryFeatureGetsAnchor ==
    upload.kind # "none" =>
        /\ upload.kind = "ok"
        /\ \A i \in DOMAIN upload.features :
              upload.features[i].hasCenter /\ upload.features[i].id # 0

\* C10: the only errors performSpatialAnalysis raises are 'no features' and
\* 'no suitable site'; a failure on one feature does not escape.
C10_OnlyDatasetErrorsEscape ==
    analysis.kind = "error" => analysis.error \in {NoFeaturesError, NoSiteError}

\* C13: normalizeAngle is total and idempotent: for every angle a, negative
\* or of a full turn and more, the result r has 0 <= r < 360 and
\* normalizeAngle(r) = r.
C13_NormalizeAngleIdempotent ==
    angles.op = "normalizeAngle" =>
        /\ 0 <= angles.r /\ angles.r < Deg(360)
        /\ (angles.r - angles.a) % Deg(360) = 0
        /\ angles.rr = angles.r

\* A negative angle more than a turn below zero, off the whole degrees.
C13_Witness ==
    /\ angles.op = "normalizeAngle"
    /\ angles.a = -Deg(370) - 1
    /\ angles.r = Deg(349) + 1
    /\ angles.rr = angles.r

C15_SectorInvariant ==
    sector.done =>
        /\ sector.metrics.isOmni => sector.metrics.beamwidth = Deg(360)
        /\ 0 <= sector.metrics.azimuth /\ sector.metrics.azimuth < Deg(360)
        /\ 0 < sector.metrics.beamwidth /\ sector.metrics.beamwidth <= Deg(360)

\* A directional sector whose explicit azimuth of -90 is stored as 270.
C15_Witness ==
    /\ sector.done /\ sector.gapPath
    /\ sector.props = <<Prop("heading", Deg(-90))>>
    /\ ~sector.metrics.isOmni
    /\ sector.metrics.azimuth = Deg(270)
    /\ sector.metrics.beamwidth = Deg(30)

\* C16: a feature with a parseable explicit azimuth gets the normalized
\* explicit value as its azimuth on every path of the analyzer.
C16_ExplicitAzimuthOnEveryPath ==
    (sector.done /\ getExplicitAzimuth(sector.props).has) =>
        sector.metrics.azimuth = getExplicitAzimuth(sector.props).val

BearingSet == {sector.bearings[i] : i \in DOMAIN sector.bearings}

\* The way clockwise from bearing b to the next bearing of B, a full turn
\* when B has no other bearing.
GapAfter(B, b) ==
    LET ways == {(c - b) % Deg(360) : c \in B \ {b}}
    IN  IF ways = {} THEN Deg(360)
        ELSE CHOOSE w \in ways : \A v \in ways : w <= v

LargestGap(B) ==
    CHOOSE g \in {GapAfter(B, b) : b \in B} : \A b \in B : GapAfter(B, b) <= g

\* C17: a directional result of the angular-gap analysis is the complement
\* of the largest gap: endAngle is the bearing before that gap, startAngle
\* the one after it, beamwidth = 360 - maxGap, normalizeAngle(startAngle +
\* beamwidth) = endAngle, every bearing is on the clockwise arc from
\* startAngle to endAngle, and bearings {10, 20, 200} give startAngle 200,
\* endAngle 20, beamwidth 180.
C17_WedgeIsComplementOfLargestGap ==
    (sector.done /\ sector.gapPath /\ ~sector.metrics.isOmni) =>
        LET m == sector.metrics
            B == BearingSet
        IN  /\ m.startAngle \in B /\ m.endAngle \in B
            /\ GapAfter(B, m.endAngle) = LargestGap(B)
            /\ (m.startAngle - m.endAngle) % Deg(360) = LargestGap(B) % Deg(360)
            /\ m.beamwidth = Deg(360) - LargestGap(B)
            /\ normalizeAngle(m.startAngle + m.beamwidth) = m.endAngle
            /\ \A b \in B : (b - m.startAngle) % Deg(360) <= m.beamwidth
            /\ B = {Deg(10), Deg(20), Deg(200)} =>
                   (m.startAngle = Deg(200) /\ m.endAngle = Deg(20)
                    /\ m.beamwidth = Deg(180))

C17_Witness ==
    /\ sector.done /\ sector.gapPath
    /\ sector.bearings = <<Deg(200), Deg(10), Deg(20)>>
    /\ sector.props = <<>>
    /\ sector.metrics =
           [azimuth |-> Deg(290), beamwidth |-> Deg(180), isOmni |-> FALSE,
            startAngle |-> Deg(200), endAngle |-> Deg(20)]

\* C18: for every non-empty list of outer bearings, a single bearing and
\* equal bearings included, the feature is omnidirectional exactly when the
\* largest gap between circularly consecutive bearings, the last-to-first
\* one measured through 360, is smaller than 60; {0, 90, 180, 270} gives a
\* directional sector of beamwidth 270 and {0, 10, 20, 30} one of 30.
C18_OmniExactlyBelowSixty ==
    (sector.done /\ sector.gapPath /\ sector.bearings # <<>>) =>
        LET m == sector.metrics
            B == BearingSet
        IN  /\ m.isOmni <=> LargestGap(B) < Deg(60)
            /\ B = {0, Deg(90), Deg(180), Deg(270)} =>
                   (~m.isOmni /\ m.beamwidth = Deg(270))
            /\ B = {0, Deg(10), Deg(20), Deg(30)} =>
                   (~m.isOmni /\ m.beamwidth = Deg(30))

\* C19: in the angular-gap path an explicit azimuth changes the azimuth
\* only: startAngle, endAngle, beamwidth and isOmni are those of the same
\* geometry without the property.
C19_ExplicitAzimuthKeepsWedge ==
    (sector.done /\ sector.gapPath) =>
        /\ sector.metrics.startAngle = sector.bare.startAngle
        /\ sector.metrics.endAngle = sector.bare.endAngle
        /\ sector.metrics.beamwidth = sector.bare.beamwidth
        /\ sector.metrics.isOmni = sector.bare.isOmni

\* An explicit azimuth of 45 on a wedge from 200 to 330.
C19_Witness ==
    /\ sector.done /\ sector.gapPath
    /\ sector.props = <<Prop("azimuth", Deg(45))>>
    /\ sector.metrics.azimuth = Deg(45)
    /\ sector.bare.azimuth = Deg(265)
    /\ sector.metrics.startAngle = Deg(200)
    /\ sector.metrics.endAngle = Deg(330)
    /\ sector.metrics.beamwidth = Deg(130)

\* The features the latest call has clustered, and their position in the
\* input.
Analysed == FeaturesToAnalyze(geoData.features, call.searchLat, call.searchLng)

AnalysedAt(id) == CHOOSE i \in DOMAIN Analysed : Analysed[i].id = id

\* C20: clustering partitions the analysed features: each is a member of
\* exactly one site, the members of a site share the anchor rounded to 4
\* decimals and no two sites share that key, members come in input order,
\* and a site's reference point and distance are those of its first member.
C20_ClusteringPartitions ==
    Len(analysis.sites) >= 1 =>
        LET sites == analysis.sites
            places == {<<i, j>> \in (DOMAIN sites) \X (1 .. Len(Analysed)) :
                          j \in DOMAIN sites[i].members}
        IN  /\ \A k \in DOMAIN Analysed :
                  Cardinality({p \in places :
                                  sites[p[1]].members[p[2]] = Analysed[k].id}) = 1
            /\ Cardinality(places) = Len(Analysed)
            /\ \A i \in DOMAIN sites :
                  /\ sites[i].members # <<>>
                  /\ \A j \in DOMAIN sites[i].members :
                        /\ \E k \in DOMAIN Analysed : Analysed[k].id = sites[i].members[j]
                        /\ SiteKey(CenterCoords(Analysed[AnalysedAt(sites[i].members[j])]))
                               = sites[i].id
                  /\ \A j, k \in DOMAIN sites[i].members :
                        j < k => AnalysedAt(sites[i].members[j]) < AnalysedAt(sites[i].members[k])
                  /\ LET first == Analysed[AnalysedAt(sites[i].members[1])]
                     IN  /\ sites[i].referencePoint = CenterCoords(first)
                         /\ sites[i].distance
                                = turfDistance(<<call.searchLng, call.searchLat>>,
                                               CenterCoords(first))
            /\ \A i, j \in DOMAIN sites : i # j => sites[i].id # sites[j].id

\* Two features whose anchors differ and round to one key: one site, the
\* reference point of the first.
C20_Witness ==
    /\ analysis.kind = "ok"
    /\ Len(analysis.sites) = 1
    /\ analysis.sites[1].members = <<7, 6>>
    /\ analysis.sites[1].referencePoint = SiteC2
    /\ SiteC # SiteC2

ParsedInFull(file, features) ==
    LET parsed == parseGeoFile(file)
    IN  /\ parsed.kind = "ok"
        /\ features = parsed.features
        /\ \A i \in DOMAIN features : features[i].id = i

\* C11: whatever the interleaving of an upload with search, find-next and
\* find-previous, every dataset in dataSources and every feature list a query
\* has read is the complete result of parseGeoFile on an uploaded file, each
\* feature with its _id, and the source of an upload is not in dataSources
\* while its parseGeoFile call or the delay after it is still pending.
C11_ReadyBarrier ==
    /\ \A k \in DOMAIN dataSources :
        ParsedInFull(dataSources[k].file, FullFeatures(dataSources[k]))
    /\ \A j \in DOMAIN reads.lists :
        \E file \in UploadFiles : ParsedInFull(file, reads.lists[j])
    /\ parsing.phase # "idle" =>
        \A k \in DOMAIN dataSources : dataSources[k].id # parsing.id

\* A find-next or find-previous has read a published source of several
\* features while the inference loop of another upload is suspended halfway.
C11_Witness ==
    /\ parsing.phase = "infer"
    /\ parsing.i > 0
    /\ parsing.i < Len(parsing.features)
    /\ reads.done
    /\ previous.kind = "ok"
    /\ Len(reads.lists) = 1
    /\ Len(reads.lists[1]) > MAX_RENDER_LIMIT

\* The angle between two directions: the shorter way round the circle.
AngularDeviation(a, b) ==
    LET d == (a - b) % Deg(360) IN Min2(d, Deg(360) - d)

\* The bearing from the selected site to the query point, and whether the
\* site is nearer than 30 m.
SiteToQuery == normalizeAngle(turfBearing(SelectedSite.referencePoint,
                                          analysis.result.searchPoint))

SiteIsNear == SelectedSite.distance < NEAR_FIELD_SQ

\* C21: the deviation of every candidate of the selected site is 0 when the
\* candidate is omnidirectional or the site is nearer than 30 m, and otherwise
\* the angular deviation between its azimuth and the bearing from the site
\* to the query point; the candidate is in-beam in the first case and
\* otherwise exactly when its deviation is at most half its beamwidth; the
\* deviationAngle of the result is the deviation of the chosen candidate.
C21_DeviationAndBeam ==
    analysis.kind = "ok" =>
        /\ \A i \in DOMAIN analysis.evaluated :
            LET c == analysis.evaluated[i]
            IN  IF c.isOmni \/ SiteIsNear
                THEN c.deviation = 0 /\ c.isInBeam
                ELSE /\ c.deviation = AngularDeviation(c.azimuth, SiteToQuery)
                     /\ c.isInBeam <=> (2 * c.deviation <= c.beamwidth)
        /\ \E i \in DOMAIN analysis.evaluated :
            /\ analysis.evaluated[i].feature = analysis.result.nearestFeature
            /\ analysis.evaluated[i].deviation = analysis.result.deviationAngle

\* A far site with a directional candidate outside its beam beside one
\* inside its beam.
C21_Witness ==
    /\ analysis.kind = "ok"
    /\ ~SiteIsNear
    /\ \E i, j \in DOMAIN analysis.evaluated :
        /\ ~analysis.evaluated[i].isOmni /\ ~analysis.evaluated[i].isInBeam
        /\ analysis.evaluated[i].deviation > 0
        /\ ~analysis.evaluated[j].isOmni /\ analysis.evaluated[j].isInBeam

\* The features that reach strategy 3 with a ring of numeric coordinates.
ScoredByTip(f) ==
    /\ f.gtype \in {"Polygon", "MultiPolygon"}
    /\ ~getExplicitCenter(f.props).has
    /\ Len(MainRing(f)) >= 3
    /\ \A k \in DOMAIN MainRing(f) : MainRing(f)[k].num
    /\ ~(LooksRegular(MainRing(f)) /\ ~CentroidThrows(f))

\* The number of features of the dataset that hold the position.
OccurrenceCount(features, pos) ==
    Cardinality({i \in DOMAIN features :
                    \E j \in DOMAIN coordAll(features[i]) :
                        coordAll(features[i])[j].num /\ coordAll(features[i])[j].pos = pos})

WeightedScore(features, ring, k) ==
    OccurrenceCount(features, ring[k].pos) * Deg(50)
    + (IF k = 1 THEN Deg(80) ELSE 0)
    + (Deg(180) - ring[k].turn) * 2

\* The vertices that are scored: all but the closing vertex of a closed ring.
ScoredVertices(ring) ==
    1 .. (IF ring[1].pos = ring[Len(ring)].pos THEN Len(ring) - 1 ELSE Len(ring))

\* C22: a polygon that falls back to sector-tip scoring is anchored at the
\* scored ring vertex of the greatest weighted score, and among vertices of
\* that greatest score at the one of the lowest ring index.
C22_TipIsFirstMaximum ==
    upload.kind = "ok" =>
        \A i \in DOMAIN upload.features :
            LET f == upload.features[i]
                ring == MainRing(f)
            IN  ScoredByTip(f) =>
                    \E k \in ScoredVertices(ring) :
                        /\ f.hasCenter /\ f.center = ring[k].pos
                        /\ \A j \in ScoredVertices(ring) :
                            /\ WeightedScore(upload.features, ring, j)
                                 <= WeightedScore(upload.features, ring, k)
                            /\ (WeightedScore(upload.features, ring, j)
                                  = WeightedScore(upload.features, ring, k)) => k <= j

\* A ring whose second and fourth vertex share the greatest score is anchored
\* at the second, beside a ring anchored at its last vertex.
C22_Witness ==
    /\ upload.kind = "ok"
    /\ Len(upload.features) = 2
    /\ LET f == upload.features[1]
           g == upload.features[2]
       IN  /\ MainRing(f) = Parallelogram /\ f.center = Parallelogram[2].pos
           /\ WeightedScore(upload.features, Parallelogram, 2)
                = WeightedScore(upload.features, Parallelogram, 4)
           /\ MainRing(g) = OpenTriangle /\ g.center = OpenTriangle[3].pos

\* More than 3 analysed vertices, a mean turning angle above 90 and a
\* population standard deviation of the turning angles below 15 (the
\* variance below 225), over the angles of the analysed vertices.
JudgedRegular(ring) ==
    LET n == AnalysisLength(ring)
        turning == Angles(ring)
        total == SumSeq(turning, n)
    IN  /\ n > 3
        /\ total > n * Deg(90)
        /\ SumSeq([j \in 1 .. n |-> (n * turning[j] - total) * (n * turning[j] - total)], n)
             < n * n * n * Deg(15) * Deg(15)

\* C23: a polygon feature without explicit coordinates is anchored at its
\* centroid exactly when its ring is judged regular, and at a vertex of its
\* ring otherwise.
C23_CentroidExactlyWhenRegular ==
    upload.kind = "ok" =>
        \A i \in DOMAIN upload.features :
            LET f == upload.features[i]
                ring == MainRing(f)
            IN  (f.gtype \in {"Polygon", "MultiPolygon"} /\ ~getExplicitCenter(f.props).has)
                => IF JudgedRegular(ring)
                   THEN f.hasCenter /\ f.center = f.cpos
                   ELSE /\ f.hasCenter
                        /\ f.center # f.cpos
                        /\ \E k \in DOMAIN ring : f.center = ring[k].pos

\* The coordinates of the dataset in flight, and the features that hold one.
DatasetKeys ==
    UNION {{CoordKey(coordAll(parsing.features[i])[j]) :
              j \in DOMAIN coordAll(parsing.features[i])} : i \in DOMAIN parsing.features}

Holders(key) ==
    {i \in DOMAIN parsing.features :
        \E j \in DOMAIN coordAll(parsing.features[i]) :
            CoordKey(coordAll(parsing.features[i])[j]) = key}

\* C24: once the counting loop has run, the index holds exactly the
\* coordinates of the dataset, each under its exact value, with the number
\* of distinct features that contain it; an empty dataset has an empty index.
C24_IndexCountsFeatures ==
    parsing.phase \in {"infer", "delay"} =>
        /\ DOMAIN parsing.coordCounts = DatasetKeys
        /\ \A key \in DatasetKeys : parsing.coordCounts[key] = Cardinality(Holders(key))
        /\ parsing.features = <<>> => parsing.coordCounts = EmptyIndex

\* Two closed rings share their first vertex: its count is 2, although it
\* occurs four times, and every other coordinate has the count 1.
C24_Witness ==
    /\ parsing.phase = "infer"
    /\ Len(parsing.features) >= 3
    /\ parsing.coordCounts[CoordKey(Vertex(TowerPos, 0, 0))] = 2
    /\ Cardinality({j \in DOMAIN coordAll(parsing.features[1]) :
                       coordAll(parsing.features[1])[j].pos = TowerPos}) = 2
    /\ \E key \in DatasetKeys : parsing.coordCounts[key] = 1

\* The anchor of the feature (its centroid when it carries none) lies in the
\* window of half a degree around the query point.
AnchorInWindow(f) ==
    LET anchor == IF f.hasCenter THEN f.center ELSE f.cpos
        known == IF f.hasCenter THEN f.centerNum ELSE ~CentroidThrows(f)
    IN  /\ known
        /\ Abs(anchor[2] - call.searchLat) <= LAT_THRESHOLD
        /\ Abs(anchor[1] - call.searchLng) <= LNG_THRESHOLD(call.searchLat)

InsideWindow == {i \in DOMAIN geoData.features : AnchorInWindow(geoData.features[i])}

Clustered == IF InsideWindow = {} THEN DOMAIN geoData.features ELSE InsideWindow

\* C26: on a dataset with features, when no anchor lies in the window the
\* call returns a result and the whole dataset is clustered; when some anchor
\* lies in the window only the features in the window are clustered; in both
\* cases totalFeatures is the number of distinct site keys of the clustered
\* features.
C26_PrefilterFallback ==
    (Called /\ geoData.features # <<>>) =>
        /\ InsideWindow = {} => analysis.kind = "ok"
        /\ analysis.kind = "ok" =>
            /\ analysis.result.totalFeatures
                 = Cardinality({SiteKey(CenterCoords(geoData.features[i])) : i \in Clustered})
            /\ UNION {{analysis.sites[k].members[j] : j \in DOMAIN analysis.sites[k].members} :
                         k \in DOMAIN analysis.sites}
                 = {geoData.features[i].id : i \in Clustered}

\* A rate-limit or overload failure: status 429 or 503, or a message that
\* names one.
RateLimitFailure(e) ==
    e.status \in {429, 503} \/ \E w \in e.msg : w \in {"429", "quota", "overloaded"}

\* The failures before the last are rate-limit failures, each followed by
\* its wait: 1 s after the first, 2 s after the second.
RetriedSoFar(errors, waited) ==
    /\ \A k \in DOMAIN errors : RateLimitFailure(errors[k])
    /\ Len(waited) = Len(errors)
    /\ waited = SubSeq(<<1000, 2000>>, 1, Len(waited))

C30_Bounded ==
    LET g == geocoding
        n == Len(g.errors)
    IN  /\ g.calls <= 3
        /\ g.phase = "calling" => g.calls = n + 1 /\ RetriedSoFar(g.errors, g.waited)
        /\ g.phase = "waiting" => g.calls = n /\ n < 3 /\ RetriedSoFar(g.errors, g.waited)
        /\ (g.phase = "done" /\ g.outcome = "busy") =>
              /\ g.calls = 3 /\ n = 3
              /\ \A k \in 1 .. 3 : RateLimitFailure(g.errors[k])
              /\ g.waited = <<1000, 2000>>
        /\ (g.phase = "done" /\ g.outcome \in {"denied", "apiError"}) =>
              /\ g.calls = n
              /\ ~RateLimitFailure(g.errors[n])
              /\ RetriedSoFar(SubSeq(g.errors, 1, n - 1), g.waited)
        /\ (g.phase = "done" /\ g.outcome \in {"coords", "null", "invalid"}) =>
              /\ g.calls \in {0, n + 1}
              /\ g.calls = 0 => n = 0
              /\ RetriedSoFar(g.errors, g.waited)

\* C30: resolveLocationWithGemini makes at most 3 API calls; a further call
\* follows only a rate-limit or overload failure, after a wait of 1 s behind
\* the first and 2 s behind the second; the third such failure raises the
\* 'busy' error; any other failure and any response end the call; and once
\* started the call ends.
C30_TerminatesWithinThreeCalls ==
    /\ []C30_Bounded
    /\ [][geocoding.phase = "done" => geocoding' = geocoding]_vars
    /\ (geocoding.phase # "idle") ~> (geocoding.phase = "done")

\* Three rate-limit failures in a row, by status and by message, end in the
\* 'busy' error.
C30_Witness ==
    /\ geocoding.phase = "done"
    /\ geocoding.outcome = "busy"
    /\ geocoding.calls = 3
    /\ geocoding.errors[1].status = 429
    /\ geocoding.errors[2].status = 0 /\ geocoding.errors[2].msg = {"overloaded"}

\* C25: every query coordinate handleSearch passes to performSpatialAnalysis
\* has a latitude within 90 degrees and a longitude within 180 degrees of
\* zero, whether the text was parsed, split at its comma or geocoded: the
\* search point of every result is the coordinate its call was passed.
C25_QueryInRange ==
    \A i \in DOMAIN analysisResults :
        LET searchPoint == analysisResults[i].result.searchPoint
        IN  Abs(searchPoint[2]) <= MaxLat /\ Abs(searchPoint[1]) <= MaxLng

\* C27: whatever the interleaving of searches, deletions of a source,
\* clear-all and removals of a result, a search suspended on the geocoder
\* included, every entry of analysisResults carries the id of a data source
\* that is present.
C27_ResultsHaveSources ==
    \A i \in DOMAIN analysisResults :
        \E k \in DOMAIN dataSources : dataSources[k].id = analysisResults[i].sourceId

\* The entry find-next or find-previous puts in the place of an entry is a
\* result for the same search point on the same source at the rank asked for.
Replaces(current, ds, rank) ==
    LET searchPoint == CoordsOf(current.result.searchPoint[2],
                                current.result.searchPoint[1])
    IN  \A newResult \in AnalyseSource(searchPoint, ds, rank) :
            /\ newResult.kind = "ok"
            /\ newResult.result.searchPoint = current.result.searchPoint
            /\ newResult.result.rank = rank

\* C28: every entry of analysisResults has a rank from 1 to its
\* totalFeatures, and unless its rank is the last one find-next replaces it
\* by the result one rank further, unless it is the first one find-previous
\* replaces it by the result one rank nearer, for the same search point and
\* source (the replacement is computed for the search points on the grid).
C28_RankNavigation ==
    \A i \in DOMAIN analysisResults :
        LET current == analysisResults[i]
            rank == current.result.rank
        IN  /\ ~rank.nan
            /\ 2 <= rank.twice
            /\ rank.twice <= 2 * current.result.totalFeatures
            /\ \A k \in DOMAIN dataSources :
                   /\ dataSources[k].id = current.sourceId
                   /\ OnGrid(CoordsOf(current.result.searchPoint[2],
                                      current.result.searchPoint[1]))
                   =>  /\ rank.twice < 2 * current.result.totalFeatures =>
                              Replaces(current, dataSources[k],
                                       [rank EXCEPT !.twice = @ + 2])
                       /\ rank.twice > 2 =>
                              Replaces(current, dataSources[k],
                                       [rank EXCEPT !.twice = @ - 2])

\* What a query on the source returns at the first rank, for each query point.
AnswersOf(ds) ==
    [q \in QueryPoints |->
        performSpatialAnalysis(q[2], q[1],
            [missing |-> FALSE, features |-> FullFeatures(ds)], IntRank(1))]

\* The source after a load-more step: a batch of at most LOAD_MORE_BATCH
\* features, the whole pending list if it is shorter, has moved from the
\* front of the pending list to the end of the rendered one.
BatchMoved(old, new) ==
    /\ [new EXCEPT !.features = old.features, !.pendingFeatures = old.pendingFeatures] = old
    /\ \E n \in 1..LOAD_MORE_BATCH :
        /\ n <= Len(old.pendingFeatures)
        /\ n = LOAD_MORE_BATCH \/ n = Len(old.pendingFeatures)
        /\ new.features = old.features \o SubSeq(old.pendingFeatures, 1, n)
        /\ new.pendingFeatures =
               SubSeq(old.pendingFeatures, n + 1, Len(old.pendingFeatures))

\* C29: a step changes a data source only by moving at most LOAD_MORE_BATCH
\* features from the front of its pending list to the end of its rendered
\* list; rendered followed by pending stays the same list, no other source
\* changes with it, and a query on the source returns what it returned
\* before.
C29_LoadMoreOnlyMoves ==
    [][\A k \in DOMAIN dataSources \cap DOMAIN dataSources' :
          dataSources'[k] # dataSources[k] =>
              /\ BatchMoved(dataSources[k], dataSources'[k])
              /\ FullFeatures(dataSources'[k]) = FullFeatures(dataSources[k])
              /\ AnswersOf(dataSources'[k]) = AnswersOf(dataSources[k])
              /\ \A j \in (DOMAIN dataSources \cap DOMAIN dataSources') \ {k} :
                     dataSources'[j] = dataSources[j]]_vars

\* A source after a load-more step that left features pending.
C29_Witness ==
    \E k \in DOMAIN dataSources :
        /\ Len(dataSources[k].features) = MAX_RENDER_LIMIT + LOAD_MORE_BATCH
        /\ Len(dataSources[k].pendingFeatures) > 0

====
